---- MODULE Spec2Model ----
(***************************************************************************)
(* Model of the quse_seatingplan plugin: the seat assignment protocol of   *)
(* SeatAssignmentView (views.py), the seating checkout step (checkout.py), *)
(* the order-time patch (patches.py) and the payload built by              *)
(* SeatingPlanDataView (views.py).                                         *)
(***************************************************************************)
EXTENDS Integers, Sequences, FiniteSets, TLC

\* ------------------------------------------------------------ bounds
\* Number of request handlers that may run SeatAssignmentView.post at once.
NumWorkers == 2

\* The most areas the first zone of a layout has.
MaxAreas == 2

\* The most categories an uploaded layout has.
MaxCategories == 2

\* The longest voucher code.
MaxCodeLen == 3

Workers == 1..NumWorkers

\* ------------------------------------------------------------ fixtures
\* None of Python / NULL of the database, for ids and for guids.
None == 0

\* request.event and a second event of the same installation.
ThisEvent == "event"
OtherEvent == "other"

Carts == {"cartA", "cartB"}
Products == {1, 2}
\* The subevent ids of the event (None: the event itself).  Subevent 2 has no
\* seats and no tickets yet; subevent 3 has no seating plan either.
Subevents == {None, 1, 2, 3}
PlanlessSubevent == 3

\* CartPosition rows (pk -> row).  seat is the mutable column, kept in the
\* variable seat.
CartPositions ==
    [pk \in 1..4 |->
        CASE pk = 1 -> [cart_id |-> "cartA", item_id |-> 1, subevent_id |-> None, event |-> ThisEvent]
          [] pk = 2 -> [cart_id |-> "cartB", item_id |-> 1, subevent_id |-> None, event |-> ThisEvent]
          [] pk = 3 -> [cart_id |-> "cartA", item_id |-> 2, subevent_id |-> 1,    event |-> ThisEvent]
          [] OTHER  -> [cart_id |-> "cartB", item_id |-> 1, subevent_id |-> None, event |-> OtherEvent]]

PositionIds == DOMAIN CartPositions

\* Seat rows of request.event (pk -> row).  A subevent has its own rows with
\* the guids of the plan, so a guid identifies a seat only within a subevent.
Seats ==
    [pk \in 1..6 |->
        CASE pk = 1 -> [seat_guid |-> 1, subevent_id |-> None, product_id |-> 1,    blocked |-> FALSE, has_order |-> FALSE, has_voucher |-> FALSE, x |-> 2, y |-> 1]
          [] pk = 2 -> [seat_guid |-> 2, subevent_id |-> None, product_id |-> None, blocked |-> FALSE, has_order |-> FALSE, has_voucher |-> FALSE, x |-> 3, y |-> 1]
          [] pk = 3 -> [seat_guid |-> 3, subevent_id |-> None, product_id |-> 2,    blocked |-> FALSE, has_order |-> FALSE, has_voucher |-> TRUE,  x |-> 4, y |-> 2]
          [] pk = 4 -> [seat_guid |-> 1, subevent_id |-> 1,    product_id |-> 2,    blocked |-> FALSE, has_order |-> FALSE, has_voucher |-> FALSE, x |-> 2, y |-> 1]
          [] pk = 5 -> [seat_guid |-> 2, subevent_id |-> 1,    product_id |-> None, blocked |-> TRUE,  has_order |-> FALSE, has_voucher |-> FALSE, x |-> 3, y |-> 1]
          [] OTHER  -> [seat_guid |-> 3, subevent_id |-> 1,    product_id |-> None, blocked |-> FALSE, has_order |-> TRUE,  has_voucher |-> FALSE, x |-> 4, y |-> 2]]

SeatIds == DOMAIN Seats

\* A guid no seat of the event carries.
UnknownGuid == 9
Guids == {Seats[s].seat_guid : s \in SeatIds} \cup {UnknownGuid}

\* SeatCategoryMapping rows an event may have.
MappingUniverse ==
    { [subevent_id |-> None, layout_category |-> "A", product_id |-> 1],
      [subevent_id |-> None, layout_category |-> "B", product_id |-> 2],
      [subevent_id |-> 1,    layout_category |-> "B", product_id |-> 2] }

\* ------------------------------------------------------------ state
VARIABLES
    enabled,    \* event.settings.quse_seatingplan_checkout_enabled
    seating_plan, \* event.seating_plan: whether there is one, and its layout_data
    mappings,   \* the SeatCategoryMapping rows of request.event
    seat,       \* CartPosition.seat_id, by cart position pk (None: no seat)
    lock,       \* row lock of a Seat row: the worker holding it, or None
    pc,         \* position of each worker in SeatAssignmentView.post
    rq,         \* the request a worker is handling
    out,        \* the JsonResponse of the worker's request, once it is made
    waited,     \* the worker found the seat row locked and had to wait
    granted,    \* by seat: carts answered 200 for it and not released since
    settings,   \* event.settings.seating_choice and .quse_seatingplan_name
    ret         \* the call made last outside SeatAssignmentView, and its result

vars == <<enabled, seating_plan, mappings, seat, lock, pc, rq, out, waited, granted, settings, ret>>

\* What the settings form writes and the views only read.
config == <<enabled, seating_plan, mappings, settings>>

\* The state of the workers of SeatAssignmentView.
workers == <<lock, pc, rq, out, waited, granted>>

NoRequest == [cart |-> "", kind |-> "", cart_position |-> None, seat_guid |-> None]
\* released: the seat the cart position gave up by the request's write.
NoResponse == [status |-> 0, error |-> "", seat_guid |-> None, released |-> None]

\* Request bodies: undecodable, or a JSON object with the two keys (None when
\* the key is absent, null or empty).  cart is the cart id of the session.
Requests ==
    [cart : Carts, kind : {"bad"}, cart_position : {None}, seat_guid : {None}]
    \cup
    [cart : Carts, kind : {"object"}, cart_position : PositionIds \cup {None}, seat_guid : Guids \cup {None}]

\* Request bodies that decode to something else than a JSON object with a
\* numeric cart_position: null, an array, a number, a string, and an object
\* whose cart_position is a text that is no number ("text_id").
OtherBodies ==
    [cart : Carts, kind : {"null", "array", "number", "string", "text_id"},
     cart_position : {None}, seat_guid : Guids \cup {None}]

\* The requests of two carts about their tickets for the event itself.
ContendingRequests ==
    {q \in Requests : q.kind = "object" /\ q.cart_position \in {1, 2}}

\* The requests of the two carts for their own tickets that name the seat with
\* guid 1, a seat of another product or an unknown seat.
LockRequests ==
    {q \in ContendingRequests :
        /\ CartPositions[q.cart_position].cart_id = q.cart
        /\ q.seat_guid \in {1, 3, UnknownGuid}}

\* ------------------------------------------------------------ SeatAssignmentView
\* _read_payload: json.loads of the body; is_none when it cannot be decoded.
\* json.loads of the body "null" is None as well.  is_object: the value is a
\* dict; cart_position_text: its cart_position is a text that is no number.
_read_payload(q) ==
    IF q.kind \in {"bad", "null"}
    THEN [is_none |-> TRUE, is_object |-> FALSE, cart_position |-> None,
          cart_position_text |-> FALSE, seat_guid |-> None]
    ELSE [is_none |-> FALSE, is_object |-> q.kind \in {"object", "text_id"},
          cart_position |-> q.cart_position,
          cart_position_text |-> q.kind = "text_id", seat_guid |-> q.seat_guid]

\* An exception that nothing in the view catches: the request ends with
\* Django's answer to an unhandled exception, status 500, and no JsonResponse.
Raised(exception) == [status |-> 500, error |-> exception]

\* A lookup of the cart position by pk alone, in any event.
_cart_position_any_event(pk) ==
    IF pk \in PositionIds THEN pk ELSE None

\* _cart_position: CartPosition.objects.get(pk=pk, event=request.event);
\* None stands for Http404.
_cart_position(pk) ==
    IF pk \in PositionIds /\ CartPositions[pk].event = ThisEvent THEN pk ELSE None

\* The product ids of the event-level rows, whatever the subevent.
allowed_products_event_level(subevent) ==
    {m.product_id : m \in {n \in mappings : n.subevent_id = None}}

\* The product ids of the SeatCategoryMapping rows of the event for a subevent.
allowed_products(subevent) ==
    {m.product_id : m \in {n \in mappings : n.subevent_id = subevent}}

Answer(status, error) == [status |-> status, error |-> error]
Pass == Answer(0, "")

\* A post that reads the payload before it looks at the setting.
post_checks_payload_first(q) ==
    IF _read_payload(q).is_none THEN Answer(400, "Invalid payload.")
    ELSE IF ~enabled THEN Answer(404, "Seat selection is disabled for this event.")
    ELSE IF _read_payload(q).cart_position = None THEN Answer(400, "Cart position is required.")
    ELSE IF _cart_position(q.cart_position) = None THEN Answer(404, "Ticket could not be found.")
    ELSE IF CartPositions[q.cart_position].cart_id # q.cart
         THEN Answer(403, "This ticket is not part of your cart.")
    ELSE IF CartPositions[q.cart_position].item_id
                \notin allowed_products(CartPositions[q.cart_position].subevent_id)
         THEN Answer(400, "This product is not connected to the seating plan.")
    ELSE Pass

\* A post that does not compare the cart of the ticket with the session's.
post_checks_any_cart(q) ==
    IF ~enabled THEN Answer(404, "Seat selection is disabled for this event.")
    ELSE IF _read_payload(q).is_none THEN Answer(400, "Invalid payload.")
    ELSE IF _read_payload(q).cart_position = None THEN Answer(400, "Cart position is required.")
    ELSE IF _cart_position(q.cart_position) = None THEN Answer(404, "Ticket could not be found.")
    ELSE IF CartPositions[q.cart_position].item_id
                \notin allowed_products(CartPositions[q.cart_position].subevent_id)
         THEN Answer(400, "This product is not connected to the seating plan.")
    ELSE Pass

\* post, up to the branch on seat_guid: the answer of the first check that
\* fails, or Pass.
post_checks(q) ==
    IF ~enabled THEN Answer(404, "Seat selection is disabled for this event.")
    ELSE IF _read_payload(q).is_none THEN Answer(400, "Invalid payload.")
    \* line 367: payload.get of a list, a number or a string
    ELSE IF ~_read_payload(q).is_object THEN Raised("AttributeError")
    ELSE IF _read_payload(q).cart_position = None /\ ~_read_payload(q).cart_position_text
         THEN Answer(400, "Cart position is required.")
    \* line 404: objects.get(pk=...) of a text that is no number; _cart_position
    \* catches CartPosition.DoesNotExist only
    ELSE IF _read_payload(q).cart_position_text THEN Raised("ValueError")
    ELSE IF _cart_position(q.cart_position) = None THEN Answer(404, "Ticket could not be found.")
    ELSE IF CartPositions[q.cart_position].cart_id # q.cart
         THEN Answer(403, "This ticket is not part of your cart.")
    ELSE IF CartPositions[q.cart_position].item_id
                \notin allowed_products(CartPositions[q.cart_position].subevent_id)
         THEN Answer(400, "This product is not connected to the seating plan.")
    ELSE Pass

\* seat_qs.get(seat_guid=...) over event.seats.filter(subevent=subevent): the
\* seats that match (none: Seat.DoesNotExist).
seat_lookup(subevent, guid) ==
    {s \in SeatIds : Seats[s].subevent_id = subevent /\ Seats[s].seat_guid = guid}

\* The seat a passed request names.
TargetSeat(q) ==
    CHOOSE s \in seat_lookup(CartPositions[q.cart_position].subevent_id, q.seat_guid) : TRUE

\* An availability that counts the hold of the asking cart position too.
is_available_counting_own(s, ignore_cart) ==
    /\ ~Seats[s].blocked
    /\ ~Seats[s].has_order
    /\ ~Seats[s].has_voucher
    /\ \A p \in PositionIds : seat[p] # s

\* Seat.is_available(ignore_cart=cart_position) of the host: the seat is not
\* blocked and no order position, voucher or other cart position holds it.
is_available(s, ignore_cart) ==
    /\ ~Seats[s].blocked
    /\ ~Seats[s].has_order
    /\ ~Seats[s].has_voucher
    /\ \A p \in PositionIds \ {ignore_cart} : seat[p] # s

\* A query without FOR UPDATE never waits for the row lock.
select_without_lock(s) == TRUE

\* select_for_update: the row lock can be taken when no transaction holds it.
select_for_update_ready(s) == lock[s] = None

\* A lock that outlives the block that took it.
atomic_exit_keeps_lock(s) == lock

\* Leaving the transaction.atomic() block (commit or return) drops the lock.
atomic_exit(s) == [lock EXCEPT ![s] = None]

\* cart_position.seat = value; cart_position.save(update_fields=['seat'])
save_seat(pk, value) == [seat EXCEPT ![pk] = value]

\* The carts holding a 200 for each seat, after position pk of its cart went
\* from the seat it had to seat value.
Granted(pk, value) ==
    [s \in SeatIds |->
        IF s = value THEN granted[s] \cup {CartPositions[pk].cart_id}
        ELSE IF s = seat[pk] THEN granted[s] \ {CartPositions[pk].cart_id}
        ELSE granted[s]]

\* return JsonResponse(...): the response of the worker's request.
Respond(r, status, error, guid) ==
    /\ out' = [out EXCEPT ![r] =
                  [status |-> status, error |-> error, seat_guid |-> guid,
                   released |-> IF status = 200 /\ seat[rq[r].cart_position] # seat'[rq[r].cart_position]
                                THEN seat[rq[r].cart_position] ELSE None]]
    /\ pc' = [pc EXCEPT ![r] = "done"]

\* post, lines 362-384: a request arrives and passes or fails the checks that
\* read the settings, the cart position row and the mappings.
Post(r, q) ==
    /\ pc[r] = "idle"
    /\ rq' = [rq EXCEPT ![r] = q]
    /\ IF post_checks(q) # Pass
       THEN Respond(r, post_checks(q).status, post_checks(q).error, None)
       ELSE /\ pc' = [pc EXCEPT ![r] = IF q.seat_guid # None THEN "select" ELSE "clear"]
            /\ UNCHANGED out
    /\ UNCHANGED <<config, ret, seat, lock, waited, granted>>

\* post, lines 388-392: no seat_guid, the seat of the cart position is cleared.
ClearSeat(r) ==
    /\ pc[r] = "clear"
    /\ seat' = save_seat(rq[r].cart_position, None)
    /\ granted' = Granted(rq[r].cart_position, None)
    /\ Respond(r, 200, "", None)
    /\ UNCHANGED <<config, ret, lock, rq, waited>>

\* _assign_seat, lines 411-414: no seat with this guid.
SeatNotFound(r) ==
    /\ pc[r] = "select"
    /\ seat_lookup(CartPositions[rq[r].cart_position].subevent_id, rq[r].seat_guid) = {}
    /\ Respond(r, 404, "Seat could not be found.", None)
    /\ UNCHANGED <<config, ret, seat, lock, rq, waited, granted>>

\* _assign_seat, line 412: the row is locked by another transaction.
WaitForLock(r) ==
    /\ pc[r] = "select"
    /\ seat_lookup(CartPositions[rq[r].cart_position].subevent_id, rq[r].seat_guid) # {}
    /\ ~select_for_update_ready(TargetSeat(rq[r]))
    /\ ~waited[r]
    /\ waited' = [waited EXCEPT ![r] = TRUE]
    /\ UNCHANGED <<config, ret, seat, lock, pc, rq, out, granted>>

\* _assign_seat, line 412: SELECT ... FOR UPDATE returns the row, locked.
SelectForUpdate(r) ==
    /\ pc[r] = "select"
    /\ seat_lookup(CartPositions[rq[r].cart_position].subevent_id, rq[r].seat_guid) # {}
    /\ select_for_update_ready(TargetSeat(rq[r]))
    /\ lock' = [lock EXCEPT ![TargetSeat(rq[r])] = r]
    /\ pc' = [pc EXCEPT ![r] = "check"]
    /\ UNCHANGED <<config, ret, seat, rq, out, waited, granted>>

\* _assign_seat, line 415: seat.product_id and seat.product_id != item_id
different_product(s, pk) ==
    Seats[s].product_id # None /\ Seats[s].product_id # CartPositions[pk].item_id

\* _assign_seat, lines 415-416.
DifferentProduct(r) ==
    /\ pc[r] = "check"
    /\ different_product(TargetSeat(rq[r]), rq[r].cart_position)
    /\ lock' = atomic_exit(TargetSeat(rq[r]))
    /\ Respond(r, 409, "Seat belongs to a different product.", None)
    /\ UNCHANGED <<config, ret, seat, rq, waited, granted>>

\* A refusal that first takes the seat the cart position had away from it.
SeatTaken_after_release(r) ==
    /\ pc[r] = "check"
    /\ ~different_product(TargetSeat(rq[r]), rq[r].cart_position)
    /\ ~is_available(TargetSeat(rq[r]), rq[r].cart_position)
    /\ seat' = save_seat(rq[r].cart_position, None)
    /\ lock' = atomic_exit(TargetSeat(rq[r]))
    /\ Respond(r, 409, "Seat is already taken.", None)
    /\ UNCHANGED <<config, ret, rq, waited, granted>>

\* _assign_seat, lines 417-418.
SeatTaken(r) ==
    /\ pc[r] = "check"
    /\ ~different_product(TargetSeat(rq[r]), rq[r].cart_position)
    /\ ~is_available(TargetSeat(rq[r]), rq[r].cart_position)
    /\ lock' = atomic_exit(TargetSeat(rq[r]))
    /\ Respond(r, 409, "Seat is already taken.", None)
    /\ UNCHANGED <<config, ret, seat, rq, waited, granted>>

\* _assign_seat, line 417: the seat is available.
SeatAvailable(r) ==
    /\ pc[r] = "check"
    /\ ~different_product(TargetSeat(rq[r]), rq[r].cart_position)
    /\ is_available(TargetSeat(rq[r]), rq[r].cart_position)
    /\ pc' = [pc EXCEPT ![r] = "write"]
    /\ UNCHANGED <<config, ret, seat, lock, rq, out, waited, granted>>

\* _assign_seat, lines 419-424: the seat is written, the transaction commits
\* and the response is 200.
AssignSeat(r) ==
    /\ pc[r] = "write"
    /\ seat' = save_seat(rq[r].cart_position, TargetSeat(rq[r]))
    /\ granted' = Granted(rq[r].cart_position, TargetSeat(rq[r]))
    /\ lock' = atomic_exit(TargetSeat(rq[r]))
    /\ Respond(r, 200, "", rq[r].seat_guid)
    /\ UNCHANGED <<config, ret, rq, waited>>

\* The response has been sent; the worker takes the next request.
Finish(r) ==
    /\ pc[r] = "done"
    /\ pc' = [pc EXCEPT ![r] = "idle"]
    /\ rq' = [rq EXCEPT ![r] = NoRequest]
    /\ out' = [out EXCEPT ![r] = NoResponse]
    /\ waited' = [waited EXCEPT ![r] = FALSE]
    /\ UNCHANGED <<config, ret, seat, lock, granted>>

\* The steps of _assign_seat.
Assign(r) ==
    \/ SeatNotFound(r)
    \/ SelectForUpdate(r)
    \/ DifferentProduct(r)
    \/ SeatTaken(r)
    \/ SeatAvailable(r)
    \/ AssignSeat(r)

\* The steps of a request once it has arrived.
Handle(r) ==
    \/ ClearSeat(r)
    \/ Assign(r)
    \/ Finish(r)

\* ------------------------------------------------------------ specifications
\* No call yet.
NoCall == [call |-> "none"]

\* A plan without layout data.
EmptyPlan == [present |-> TRUE, layout_data |-> <<>>]

\* The settings of an event the form was never saved for: pretix offers its
\* own seat choice and no plan name is stored.
DefaultSettings == [seating_choice |-> TRUE, quse_seatingplan_name |-> ""]

\* Every worker is free and no seat row is locked.
InitWorkers ==
    /\ lock = [s \in SeatIds |-> None]
    /\ pc = [r \in Workers |-> "idle"]
    /\ rq = [r \in Workers |-> NoRequest]
    /\ out = [r \in Workers |-> NoResponse]
    /\ waited = [r \in Workers |-> FALSE]
    /\ granted = [s \in SeatIds |-> {}]

\* The fixtures of the assignment tests: tickets without seats.
InitRequests ==
    /\ seat = [p \in PositionIds |-> None]
    /\ seating_plan = EmptyPlan
    /\ settings = DefaultSettings
    /\ ret = NoCall
    /\ InitWorkers

\* Concurrent requests of the two carts.
Init ==
    /\ enabled \in BOOLEAN
    /\ mappings \in {MappingUniverse, {}}
    /\ InitRequests

Next ==
    \E r \in Workers :
        \/ \E q \in ContendingRequests : Post(r, q)
        \/ WaitForLock(r)
        \/ Handle(r)

Spec == Init /\ [][Next]_vars

\* One request at a time, of any body, against any configuration.
InitSeq ==
    /\ enabled \in BOOLEAN
    /\ mappings \in SUBSET MappingUniverse
    /\ InitRequests

NextSeq ==
    \/ \E q \in Requests : Post(1, q)
    \/ Handle(1)

SpecSeq == InitSeq /\ [][NextSeq]_vars

\* One request at a time, of any body that decodes or not.
NextBody ==
    \/ \E q \in Requests \cup OtherBodies : Post(1, q)
    \/ Handle(1)

SpecBody == InitSeq /\ [][NextBody]_vars

\* Requests are served: a worker that has taken a request runs the handler to
\* its response, and the database grants a row lock to each transaction that
\* waits for it.
Fairness ==
    \A r \in Workers : WF_vars(Handle(r)) /\ SF_vars(SelectForUpdate(r))

\* The requests of the two carts that compete for one seat of the event.
NextLock ==
    \E r \in Workers :
        \/ \E q \in LockRequests : Post(r, q)
        \/ WaitForLock(r)
        \/ Assign(r)
        \/ Finish(r)

SpecFair == Init /\ [][NextLock]_vars /\ Fairness

\* ------------------------------------------------------------ checkout step
\* CartMixin.positions: the cart positions of the session's cart for the
\* event, in the order of their pk.
RECURSIVE positions_from(_, _)
positions_from(cart, pk) ==
    IF pk \notin PositionIds THEN <<>>
    ELSE IF CartPositions[pk].cart_id = cart /\ CartPositions[pk].event = ThisEvent
         THEN <<pk>> \o positions_from(cart, pk + 1)
         ELSE positions_from(cart, pk + 1)

positions(cart) == positions_from(cart, 1)

\* The product ids of all mapping rows of the event, of any subevent.
seat_product_ids_any_subevent == {m.product_id : m \in mappings}

\* SeatingPlanCheckoutStep.seat_product_ids
seat_product_ids ==
    {m.product_id : m \in {n \in mappings : n.subevent_id = None}}

\* any(pos.item_id in self.seat_product_ids for pos in positions)
RECURSIVE any_seat_product(_)
any_seat_product(ps) ==
    IF ps = <<>> THEN FALSE
    ELSE IF CartPositions[Head(ps)].item_id \in seat_product_ids THEN TRUE
    ELSE any_seat_product(Tail(ps))

\* SeatingPlanCheckoutStep.is_applicable
is_applicable(cart) ==
    IF ~enabled THEN FALSE
    ELSE IF ~seating_plan.present THEN FALSE
    ELSE IF seat_product_ids = {} THEN FALSE
    ELSE any_seat_product(positions(cart))

\* The loop of is_completed that stops at the first ticket, seated or not.
RECURSIVE all_seated_first_only(_)
all_seated_first_only(ps) ==
    IF ps = <<>> THEN TRUE
    ELSE ~(CartPositions[Head(ps)].item_id \in seat_product_ids /\ seat[Head(ps)] = None)

\* The loop of is_completed: False at the first seat-mapped ticket without seat.
RECURSIVE all_seated(_)
all_seated(ps) ==
    IF ps = <<>> THEN TRUE
    ELSE IF CartPositions[Head(ps)].item_id \in seat_product_ids /\ seat[Head(ps)] = None
         THEN FALSE
    ELSE all_seated(Tail(ps))

\* SeatingPlanCheckoutStep.is_completed
is_completed(cart) ==
    IF ~is_applicable(cart) THEN TRUE
    ELSE all_seated(positions(cart))

\* is_completed, lines 42-43: the messages of a call with the given warn.
is_completed_messages(cart, warn) ==
    IF warn /\ ~is_completed(cart)
    THEN <<"Please choose seats for every ticket before continuing.">>
    ELSE <<>>

\* get_next_url of the host: the address of the next step, or nothing when
\* there is none.
NoUrl == ""
NextUrls == {NoUrl, "/checkout/confirm/"}

\* A post that goes on to the next step without asking is_completed.
post_without_is_completed(cart, next_url) ==
    IF next_url # NoUrl
    THEN [response |-> "redirect", url |-> next_url, messages |-> <<>>]
    ELSE [response |-> "render", url |-> NoUrl, messages |-> <<>>]

\* SeatingPlanCheckoutStep.post
post(cart, next_url) ==
    IF ~is_completed(cart)
    THEN [response |-> "render", url |-> NoUrl,
          messages |-> is_completed_messages(cart, TRUE)]
    ELSE IF next_url # NoUrl
    THEN [response |-> "redirect", url |-> next_url,
          messages |-> is_completed_messages(cart, TRUE)]
    ELSE [response |-> "render", url |-> NoUrl,
          messages |-> is_completed_messages(cart, TRUE)]

\* The checkout flow asks the step whether it applies to the cart.
IsApplicable(cart) ==
    /\ ret' = [call |-> "is_applicable", cart |-> cart, value |-> is_applicable(cart)]
    /\ UNCHANGED <<config, seat, workers>>

\* The checkout flow asks the step whether it is completed.
IsCompleted(cart) ==
    /\ ret' = [call |-> "is_completed", cart |-> cart, value |-> is_completed(cart)]
    /\ UNCHANGED <<config, seat, workers>>

\* The customer submits the step.
CheckoutPost(cart, next_url) ==
    /\ ret' = [call |-> "post", cart |-> cart, next_url |-> next_url,
               result |-> post(cart, next_url)]
    /\ UNCHANGED <<config, seat, workers>>

\* The requests a session makes for the tickets of its own cart.
OwnRequests ==
    {q \in Requests :
        /\ q.kind = "object" /\ q.cart_position \in PositionIds
        /\ CartPositions[q.cart_position].cart_id = q.cart
        /\ CartPositions[q.cart_position].event = ThisEvent}

\* A customer at the seating step: the flow asks whether the step is
\* completed, and the seating frame posts the customer's choices.
NextStep ==
    \/ \E cart \in Carts : IsCompleted(cart)
    \/ \E q \in OwnRequests : Post(1, q)
    \/ Handle(1)

SpecStep == InitSeq /\ [][NextStep]_vars

\* ------------------------------------------------------------ order placement
\* The CartPosition objects the host hands to _check_positions: the tickets of
\* the cart, each with the requires_seat annotation the host computed.
order_positions(cart, annotation) ==
    [i \in 1..Len(positions(cart)) |->
        [pk |-> positions(cart)[i],
         item_id |-> CartPositions[positions(cart)[i]].item_id,
         subevent_id |-> CartPositions[positions(cart)[i]].subevent_id,
         seat |-> seat[positions(cart)[i]],
         requires_seat |-> annotation[i]]]

\* _seat_product_sets: the product ids of the event-level rows and, by
\* subevent, of the rows of the subevents that have any.
_seat_product_sets ==
    [general |-> {m.product_id : m \in {n \in mappings : n.subevent_id = None}},
     subevents |-> [sub \in {m.subevent_id : m \in {n \in mappings : n.subevent_id # None}} |->
                      {m.product_id : m \in {n \in mappings : n.subevent_id = sub}}]]

\* A lookup that knows the event-level products only.
_position_requires_seat_general_only(product_id, subevent_id, lookup) ==
    product_id \in lookup.general

\* _position_requires_seat
_position_requires_seat(product_id, subevent_id, lookup) ==
    IF /\ subevent_id # None
       /\ subevent_id \in DOMAIN lookup.subevents
       /\ lookup.subevents[subevent_id] # {}
       /\ product_id \in lookup.subevents[subevent_id]
    THEN TRUE
    ELSE product_id \in lookup.general

\* _patched_check_positions, lines 37-42: the positions as they are handed on.
patched_positions(ps) ==
    IF enabled /\ (_seat_product_sets.general # {} \/ DOMAIN _seat_product_sets.subevents # {})
    THEN [i \in DOMAIN ps |->
            IF _position_requires_seat(ps[i].item_id, ps[i].subevent_id, _seat_product_sets)
            THEN [ps[i] EXCEPT !.requires_seat = TRUE]
            ELSE ps[i]]
    ELSE ps

\* The host's _check_positions, as far as seats go: a position is refused when
\* it requires a seat and has none, has a seat and requires none, or has a
\* seat of another product.
_original_check_positions(ps) ==
    \E i \in DOMAIN ps :
        \/ ps[i].requires_seat /\ ps[i].seat = None
        \/ ps[i].seat # None /\ ~ps[i].requires_seat
        \/ ps[i].seat # None /\ Seats[ps[i].seat].product_id # ps[i].item_id

\* _patched_check_positions, line 43: the call of the original.
_patched_check_positions(ps) == _original_check_positions(patched_positions(ps))

\* The host's _perform_order: the positions are checked and, unless one is
\* refused, each becomes an order position with the seat of the cart position.
PerformOrder(cart, annotation) ==
    /\ ret' = [call |-> "perform_order", cart |-> cart,
               positions |-> order_positions(cart, annotation),
               checked |-> patched_positions(order_positions(cart, annotation)),
               error |-> _patched_check_positions(order_positions(cart, annotation)),
               order |-> IF _patched_check_positions(order_positions(cart, annotation))
                         THEN <<>>
                         ELSE [i \in 1..Len(positions(cart)) |->
                                 [cart_position |-> order_positions(cart, annotation)[i].pk,
                                  seat |-> patched_positions(order_positions(cart, annotation))[i].seat]]]
    /\ UNCHANGED <<config, seat, workers>>

\* The seats a ticket may hold when checkout begins.
CartSeats ==
    {f \in [PositionIds -> SeatIds \cup {None}] :
        /\ f[4] = None
        /\ \A p \in PositionIds : f[p] # None
              => /\ Seats[f[p]].subevent_id = CartPositions[p].subevent_id
                 /\ ~Seats[f[p]].blocked /\ ~Seats[f[p]].has_voucher /\ ~Seats[f[p]].has_order
        /\ \A p1, p2 \in PositionIds : (p1 # p2 /\ f[p1] # None) => f[p1] # f[p2]}

\* Any configuration of the event and any carts.
InitCheckout ==
    /\ enabled \in BOOLEAN
    /\ seating_plan \in {EmptyPlan, [present |-> FALSE, layout_data |-> <<>>]}
    /\ mappings \in SUBSET MappingUniverse
    /\ seat \in CartSeats
    /\ settings = DefaultSettings
    /\ ret = NoCall
    /\ InitWorkers

NextCheckout ==
    \E cart \in Carts :
        \/ IsApplicable(cart)
        \/ IsCompleted(cart)
        \/ \E next_url \in NextUrls : CheckoutPost(cart, next_url)
        \/ \E annotation \in [1..Len(positions(cart)) -> BOOLEAN] : PerformOrder(cart, annotation)

SpecCheckout == InitCheckout /\ [][NextCheckout]_vars

\* ------------------------------------------------------------ SeatingPlanDataView: shapes
\* JSON objects are functions from keys to values; a key that is missing is
\* not in the domain.  dict.get(key, default):
Get(d, k, default) == IF k \in DOMAIN d THEN d[k] ELSE default

\* {}
EmptyDict == [k \in {} |-> 0]

\* dict.update(more)
Update(d, more) ==
    [k \in DOMAIN d \cup DOMAIN more |-> IF k \in DOMAIN more THEN more[k] ELSE d[k]]

\* Numbers: the layout holds integers, the label centre is a quotient
\* (width / 2, sum(xs) / len(xs)).  A number is num / den with den > 0, and
\* den = 0 stands for None.
Num(n) == [num |-> n, den |-> 1]
Quot(n, d) == [num |-> n, den |-> d]
NoNumber == [num |-> 0, den |-> 0]
IsNone(a) == a.den = 0
Less(a, b) == a.num * b.den < b.num * a.den
Same(a, b) == a.num * b.den = b.num * a.den

\* Texts are sequences of characters.  str.strip():
RECURSIVE lstrip(_)
lstrip(s) == IF s # <<>> /\ Head(s) = " " THEN lstrip(Tail(s)) ELSE s

RECURSIVE rstrip(_)
rstrip(s) == IF s # <<>> /\ s[Len(s)] = " " THEN rstrip(SubSeq(s, 1, Len(s) - 1)) ELSE s

\* A strip that removes the leading blanks only.
strip_left_only(s) == lstrip(s)

strip(s) == rstrip(lstrip(s))

\* _empty_bounds
_empty_bounds == [min_x |-> NoNumber, max_x |-> NoNumber, min_y |-> NoNumber, max_y |-> NoNumber]

\* An _extend_bounds that never lowers the minima once they are set.
_extend_bounds_max_only(bounds, x, y) ==
    IF IsNone(x) \/ IsNone(y) THEN bounds
    ELSE [min_x |-> IF IsNone(bounds.min_x) THEN x ELSE bounds.min_x,
          max_x |-> IF IsNone(bounds.max_x) \/ Less(bounds.max_x, x) THEN x ELSE bounds.max_x,
          min_y |-> IF IsNone(bounds.min_y) THEN y ELSE bounds.min_y,
          max_y |-> IF IsNone(bounds.max_y) \/ Less(bounds.max_y, y) THEN y ELSE bounds.max_y]

\* _extend_bounds
_extend_bounds(bounds, x, y) ==
    IF IsNone(x) \/ IsNone(y) THEN bounds
    ELSE [min_x |-> IF IsNone(bounds.min_x) \/ Less(x, bounds.min_x) THEN x ELSE bounds.min_x,
          max_x |-> IF IsNone(bounds.max_x) \/ Less(bounds.max_x, x) THEN x ELSE bounds.max_x,
          min_y |-> IF IsNone(bounds.min_y) \/ Less(y, bounds.min_y) THEN y ELSE bounds.min_y,
          max_y |-> IF IsNone(bounds.max_y) \/ Less(bounds.max_y, y) THEN y ELSE bounds.max_y]

\* sum(xs) over the points of a polygon, for one coordinate.
RECURSIVE sum_of(_, _)
sum_of(points, k) ==
    IF points = <<>> THEN 0 ELSE Get(Head(points), k, 0) + sum_of(Tail(points), k)

\* _shape_label_center
_shape_label_center(shape_data, base_x, base_y) ==
    IF shape_data["type"] = "rectangle"
    THEN <<Quot(2 * base_x + Get(shape_data, "width", 0), 2),
           Quot(2 * base_y + Get(shape_data, "height", 0), 2)>>
    ELSE IF shape_data["type"] = "circle" THEN <<Num(base_x), Num(base_y)>>
    ELSE IF shape_data["type"] = "ellipse" THEN <<Num(base_x), Num(base_y)>>
    ELSE IF shape_data["type"] = "polygon" /\ Get(shape_data, "points", <<>>) # <<>>
    THEN <<Quot(sum_of(shape_data["points"], "x"), Len(shape_data["points"])),
           Quot(sum_of(shape_data["points"], "y"), Len(shape_data["points"]))>>
    ELSE <<Num(base_x), Num(base_y)>>

\* _area_label, lines 327-335: the first of the keys 'label', 'name' that
\* holds a text that is not blank.
RECURSIVE label_from_keys(_, _)
label_from_keys(area, keys) ==
    IF keys = <<>> THEN EmptyDict
    ELSE IF Head(keys) \in DOMAIN area /\ strip(area[Head(keys)]) # <<>>
         THEN [text |-> strip(area[Head(keys)])]
    ELSE label_from_keys(area, Tail(keys))

\* _area_label: the label of the area, {} for None.  position and style hold
\* the keys of the text object that are set.
_area_label(area) ==
    IF "text" \in DOMAIN area /\ strip(Get(area["text"], "text", <<>>)) # <<>>
    THEN Update([text |-> strip(Get(area["text"], "text", <<>>)),
                 style |-> [k \in DOMAIN area["text"] \cap {"color", "size"} |-> area["text"][k]]],
                [k \in DOMAIN area["text"] \cap {"position"} |-> area["text"][k]])
    ELSE label_from_keys(area, <<"label", "name">>)

\* label_info.get('position') or area.get('label_position') or {}
label_position_of(area, label_info) ==
    IF DOMAIN Get(label_info, "position", EmptyDict) # {} THEN label_info["position"]
    ELSE Get(area, "label_position", EmptyDict)

\* label_info.get('style') or area.get('label_style') or {}
label_style_of(area, label_info) ==
    IF "style" \in DOMAIN label_info THEN label_info["style"]
    ELSE Get(area, "label_style", EmptyDict)

\* _apply_area_label: the shape with its label fields, and the bounds.
_apply_area_label(area, shape_data, base_x, base_y, bounds) ==
    LET label_info == _area_label(area)
        label_position == label_position_of(area, label_info)
        label_style == label_style_of(area, label_info)
        label_xy == IF DOMAIN label_position # {}
                    THEN <<Num(base_x + Get(label_position, "x", 0)),
                           Num(base_y + Get(label_position, "y", 0))>>
                    ELSE _shape_label_center(shape_data, base_x, base_y)
    IN  IF DOMAIN label_info = {} THEN [data |-> shape_data, bounds |-> bounds]
        ELSE [data |->
                Update(Update(shape_data,
                              [label |-> label_info["text"],
                               label_x |-> label_xy[1],
                               label_y |-> label_xy[2]]),
                       Update([k \in {"label_color"} \cap
                                     (IF Get(label_style, "color", "") # ""
                                      THEN {"label_color"} ELSE {}) |-> label_style["color"]],
                              [k \in {"label_size"} \cap
                                     (IF Get(label_style, "size", 0) # 0
                                      THEN {"label_size"} ELSE {}) |-> label_style["size"]])),
              bounds |-> _extend_bounds(bounds, label_xy[1], label_xy[2])]

\* base_x, base_y without the offset of the zone.
area_base_without_zone(zone, area, k) == Get(Get(area, "position", EmptyDict), k, 0)

\* _shapes, lines 226-234: zone position plus area position, a missing
\* position or coordinate counting as 0.
area_base(zone, area, k) ==
    Get(Get(zone, "position", EmptyDict), k, 0) + Get(Get(area, "position", EmptyDict), k, 0)

\* _shapes, lines 269-274: the points of a polygon, translated.
RECURSIVE translated_points(_, _, _)
translated_points(points, base_x, base_y) ==
    IF points = <<>> THEN <<>>
    ELSE <<[x |-> base_x + Get(Head(points), "x", 0), y |-> base_y + Get(Head(points), "y", 0)]>>
         \o translated_points(Tail(points), base_x, base_y)

\* _extend_bounds for each point of a polygon in turn.
RECURSIVE extend_bounds_points(_, _)
extend_bounds_points(bounds, points) ==
    IF points = <<>> THEN bounds
    ELSE extend_bounds_points(_extend_bounds(bounds, Num(Head(points).x), Num(Head(points).y)),
                              Tail(points))

\* _shapes, lines 235-242: the fields every primitive has.  A field whose
\* value is None is left out.
shape_common(area, base_x, base_y) ==
    Update([type |-> area["shape"], x |-> base_x, y |-> base_y,
            rotation |-> Get(area, "rotation", 0)],
           [k \in DOMAIN area \cap {"color", "border_color"} |-> area[k]])

\* _shapes, lines 243-283: the fields of the shape type, and the bounds.
shape_typed(area, base_x, base_y, bounds) ==
    LET data == shape_common(area, base_x, base_y)
        shape_type == area["shape"]
    IN  IF shape_type = "rectangle"
        THEN LET rect == Get(area, "rectangle", EmptyDict)
                 width == Get(rect, "width", 0)
                 height == Get(rect, "height", 0)
             IN  [data |-> Update(data, [width |-> width, height |-> height]),
                  bounds |-> _extend_bounds(_extend_bounds(bounds, Num(base_x), Num(base_y)),
                                            Num(base_x + width), Num(base_y + height))]
        ELSE IF shape_type = "circle"
        THEN LET radius == Get(Get(area, "circle", EmptyDict), "radius", 0)
             IN  [data |-> Update(data, [radius |-> radius]),
                  bounds |-> _extend_bounds(
                                 _extend_bounds(bounds, Num(base_x - radius), Num(base_y - radius)),
                                 Num(base_x + radius), Num(base_y + radius))]
        ELSE IF shape_type = "ellipse"
        THEN LET radius == Get(Get(area, "ellipse", EmptyDict), "radius", EmptyDict)
                 radius_x == Get(radius, "x", 0)
                 radius_y == Get(radius, "y", 0)
             IN  [data |-> Update(data, [radius_x |-> radius_x, radius_y |-> radius_y]),
                  bounds |-> _extend_bounds(
                                 _extend_bounds(bounds, Num(base_x - radius_x), Num(base_y - radius_y)),
                                 Num(base_x + radius_x), Num(base_y + radius_y))]
        ELSE IF shape_type = "polygon"
        THEN LET points == translated_points(
                               Get(Get(area, "polygon", EmptyDict), "points", <<>>), base_x, base_y)
             IN  [data |-> Update(data, [points |-> points]),
                  bounds |-> extend_bounds_points(bounds, points)]
        ELSE IF shape_type = "text"
        THEN LET text_def == Get(area, "text", EmptyDict)
                 text_pos == Get(text_def, "position", EmptyDict)
                 tx == base_x + Get(text_pos, "x", 0)
                 ty == base_y + Get(text_pos, "y", 0)
             IN  [data |-> Update(Update(data, [text |-> Get(text_def, "text", <<>>),
                                                text_x |-> tx, text_y |-> ty]),
                                  Update([k \in {"text_color"} \cap
                                                (IF "color" \in DOMAIN text_def
                                                 THEN {"text_color"} ELSE {}) |-> text_def["color"]],
                                         [k \in {"text_size"} \cap
                                                (IF "size" \in DOMAIN text_def
                                                 THEN {"text_size"} ELSE {}) |-> text_def["size"]])),
                  bounds |-> _extend_bounds(bounds, Num(tx), Num(ty))]
        ELSE [data |-> data, bounds |-> bounds]

\* _shapes, lines 229-287: one area.  acc holds the shapes and the bounds so far.
shape_of_area(zone, area, acc) ==
    IF Get(area, "shape", "") = "" THEN acc
    ELSE LET base_x == area_base(zone, area, "x")
             base_y == area_base(zone, area, "y")
             typed == shape_typed(area, base_x, base_y, acc.bounds)
             labelled == IF area["shape"] # "text"
                         THEN _apply_area_label(area, typed.data, base_x, base_y, typed.bounds)
                         ELSE typed
         IN  [shapes |-> Append(acc.shapes, labelled.data), bounds |-> labelled.bounds]

\* _shapes, line 229: the areas of a zone in order.
RECURSIVE shapes_of_areas(_, _, _)
shapes_of_areas(zone, areas, acc) ==
    IF areas = <<>> THEN acc
    ELSE shapes_of_areas(zone, Tail(areas), shape_of_area(zone, Head(areas), acc))

\* _shapes, line 225: the zones in order.
RECURSIVE shapes_of_zones(_, _)
shapes_of_zones(zones, acc) ==
    IF zones = <<>> THEN acc
    ELSE shapes_of_zones(Tail(zones),
                         shapes_of_areas(Head(zones), Get(Head(zones), "areas", <<>>), acc))

\* layout_data.get('layout') or layout_data
layout_of(layout_data) ==
    IF DOMAIN Get(layout_data, "layout", EmptyDict) # {} THEN layout_data["layout"] ELSE layout_data

\* _shapes: the primitives of the plan, and the bounds extended by them.
_shapes(plan, bounds) ==
    shapes_of_zones(Get(layout_of(plan.layout_data), "zones", <<>>),
                    [shapes |-> <<>>, bounds |-> bounds])

\* ------------------------------------------------------------ SeatingPlanDataView: payload
\* A subevent id no subevent of the event has.
UnknownSubevent == 4

\* _get_subevent: the event has subevents; found, and the subevent (None when
\* the URL names none).
_get_subevent(subevent_id) ==
    IF subevent_id = None THEN [found |-> TRUE, subevent |-> None]
    ELSE IF subevent_id \in Subevents THEN [found |-> TRUE, subevent |-> subevent_id]
    ELSE [found |-> FALSE, subevent |-> None]

\* A _cart_positions that lists the mapped tickets of every subevent.
_cart_positions_any_subevent(cart, subevent) ==
    SelectSeq(positions(cart),
              LAMBDA pk : CartPositions[pk].item_id \in
                              {m.product_id : m \in {n \in mappings : n.subevent_id = subevent}})

\* _cart_positions
_cart_positions(cart, subevent) ==
    SelectSeq(positions(cart),
              LAMBDA pk : /\ CartPositions[pk].item_id \in
                                {m.product_id : m \in {n \in mappings : n.subevent_id = subevent}}
                          /\ CartPositions[pk].subevent_id = subevent)

\* _annotated_seats: the seats of the subevent, in the order of their pk.
RECURSIVE seats_from(_, _)
seats_from(subevent, pk) ==
    IF pk \notin SeatIds THEN <<>>
    ELSE IF Seats[pk].subevent_id = subevent
         THEN <<pk>> \o seats_from(subevent, pk + 1)
         ELSE seats_from(subevent, pk + 1)

_annotated_seats(subevent) == seats_from(subevent, 1)

\* The has_cart annotation of Seat.annotated: a cart position holds the seat.
has_cart(s) == \E p \in PositionIds : seat[p] = s

\* A _seat_status that tests blocked before mine.
_seat_status_blocked_first(s, my_seat_ids) ==
    IF Seats[s].blocked THEN "blocked"
    ELSE IF s \in my_seat_ids THEN "mine"
    ELSE IF Seats[s].has_order \/ has_cart(s) \/ Seats[s].has_voucher THEN "taken"
    ELSE "free"

\* _seat_status
_seat_status(s, my_seat_ids) ==
    IF s \in my_seat_ids THEN "mine"
    ELSE IF Seats[s].blocked THEN "blocked"
    ELSE IF Seats[s].has_order \/ has_cart(s) \/ Seats[s].has_voucher THEN "taken"
    ELSE "free"

\* _build_payload, lines 119-122: the bounds extended by every seat in turn.
RECURSIVE seat_bounds(_, _)
seat_bounds(seat_qs, bounds) ==
    IF seat_qs = <<>> THEN bounds
    ELSE seat_bounds(Tail(seat_qs),
                     _extend_bounds(bounds, Num(Seats[Head(seat_qs)].x), Num(Seats[Head(seat_qs)].y)))

\* _build_payload.  The legend, the colours taken from it and the display
\* names are left out.
_build_payload(plan, cart, subevent) ==
    LET listed == _cart_positions(cart, subevent)
        seat_qs == _annotated_seats(subevent)
        my_seat_ids == {seat[listed[i]] : i \in 1..Len(listed)} \ {None}
        drawn == _shapes(plan, seat_bounds(seat_qs, _empty_bounds))
    IN  [meta |-> [size |-> Get(Get(plan.layout_data, "layout", EmptyDict), "size", EmptyDict),
                   bounds |-> drawn.bounds,
                   needs_seats |-> Cardinality({i \in 1..Len(listed) : seat[listed[i]] = None})],
         cart_positions |->
             [i \in 1..Len(listed) |->
                 [id |-> listed[i],
                  item_id |-> CartPositions[listed[i]].item_id,
                  seat_guid |-> IF seat[listed[i]] # None
                                THEN Seats[seat[listed[i]]].seat_guid ELSE None,
                  needs_seat |-> seat[listed[i]] = None]],
         seats |->
             [i \in 1..Len(seat_qs) |->
                 [guid |-> Seats[seat_qs[i]].seat_guid,
                  x |-> Seats[seat_qs[i]].x,
                  y |-> Seats[seat_qs[i]].y,
                  status |-> _seat_status(seat_qs[i], my_seat_ids),
                  product_id |-> Seats[seat_qs[i]].product_id]],
         shapes |-> drawn.shapes]

\* subevent.seating_plan: the subevents of the fixture share the plan of the
\* event, but for the one that has none.
subevent_seating_plan(subevent) ==
    IF subevent = PlanlessSubevent THEN [present |-> FALSE, layout_data |-> <<>>]
    ELSE seating_plan

\* An owner that is always the event.
owner_seating_plan_of_event(subevent) == seating_plan

\* get, lines 92-93: owner = subevent or request.event; owner.seating_plan
owner_seating_plan(subevent) ==
    IF subevent # None THEN subevent_seating_plan(subevent) ELSE seating_plan

\* SeatingPlanDataView.get
get(cart, subevent_id) ==
    IF ~enabled
    THEN [status |-> 404, error |-> "Seat selection is disabled for this event."]
    ELSE IF ~_get_subevent(subevent_id).found
    THEN [status |-> 404, error |-> "Unknown subevent."]
    ELSE IF ~owner_seating_plan(_get_subevent(subevent_id).subevent).present
    THEN [status |-> 404, error |-> "No seating plan is configured for this event."]
    ELSE [status |-> 200,
          payload |-> _build_payload(owner_seating_plan(_get_subevent(subevent_id).subevent),
                                     cart, _get_subevent(subevent_id).subevent)]

\* A GET of the data view by the session of the cart.
DataGet(cart, subevent_id) ==
    /\ ret' = [call |-> "data", cart |-> cart, subevent |-> subevent_id,
               response |-> get(cart, subevent_id)]
    /\ UNCHANGED <<config, seat, workers>>

\* ------------------------------------------------------------ layouts
\* Areas as the plan editor writes them (tests/test_main.py, lines 176-214).
RectLabelled ==
    [shape |-> "rectangle", position |-> [x |-> 1, y |-> 2],
     rectangle |-> [width |-> 4, height |-> 2], color |-> "#ccc",
     text |-> [text |-> <<" ", "S", " ">>, color |-> "#222", size |-> 22,
               position |-> [x |-> 3, y |-> 1]]]

RectCentred ==
    [shape |-> "rectangle", rectangle |-> [width |-> 3, height |-> 1],
     text |-> [text |-> <<"S">>, size |-> 0]]

RectAreaPosition ==
    [shape |-> "rectangle", position |-> [x |-> 2], rectangle |-> [width |-> 2, height |-> 2],
     text |-> [text |-> <<"S", " ">>, color |-> ""], label_position |-> [x |-> 7]]

RectNamed ==
    [shape |-> "rectangle", position |-> [x |-> -3, y |-> -1], rectangle |-> [width |-> 2],
     text |-> [text |-> <<" ">>], name |-> <<"N">>]

CircleLabelled ==
    [shape |-> "circle", position |-> [x |-> 2, y |-> 2], circle |-> [radius |-> 3],
     border_color |-> "#000", text |-> [text |-> <<" ", "S">>, color |-> "#222"]]

EllipseLabelled ==
    [shape |-> "ellipse", position |-> [y |-> 1],
     ellipse |-> [radius |-> [x |-> 2, y |-> 1]], text |-> [text |-> <<"S">>]]

PolygonLabelled ==
    [shape |-> "polygon", position |-> [x |-> 1, y |-> 0],
     polygon |-> [points |-> <<[x |-> 0, y |-> 0], [x |-> 3], [x |-> 1, y |-> 2]>>],
     text |-> [text |-> <<"S">>, size |-> 9]]

PolygonEmpty == [shape |-> "polygon", position |-> [x |-> 9, y |-> 9]]

TextArea ==
    [shape |-> "text", position |-> [x |-> 1, y |-> 2],
     text |-> [text |-> <<"S", " ">>, color |-> "#111", size |-> 12,
               position |-> [x |-> 2, y |-> -4]]]

NoShape ==
    [position |-> [x |-> 5, y |-> 5], rectangle |-> [width |-> 50, height |-> 50],
     text |-> [text |-> <<"S">>]]

AreaUniverse ==
    {RectLabelled, RectCentred, RectAreaPosition, RectNamed, CircleLabelled,
     EllipseLabelled, PolygonLabelled, PolygonEmpty, TextArea, NoShape}

\* The first zone: at the origin or moved, with up to MaxAreas areas.
FirstZones ==
    {Update([areas |-> as], p) :
        as \in UNION {[1..n -> AreaUniverse] : n \in 0..MaxAreas},
        p \in {EmptyDict, [position |-> [x |-> 1, y |-> 2]]}}

\* A second zone, if there is one, holds one area.
SecondZones ==
    {<<>>} \cup {<<[position |-> [x |-> -2], areas |-> <<a>>]>> :
                    a \in {TextArea, PolygonLabelled}}

\* layout_data: the zones under the key 'layout' with the size of the plan, or
\* at the top level.
Layouts ==
    {[layout |-> [zones |-> <<z>> \o s, size |-> [width |-> 10, height |-> 8]]] :
        z \in FirstZones, s \in SecondZones}
    \cup {[zones |-> <<z>>] : z \in {f \in FirstZones : "position" \notin DOMAIN f}}

\* The layout the data view test uploads.
TestLayout ==
    [layout |-> [zones |-> <<[position |-> [x |-> 1, y |-> 2],
                              areas |-> <<RectLabelled, TextArea>>]>>,
                 size |-> [width |-> 10, height |-> 8]]]

\* The seats the tickets may hold when the plan is shown: as at checkout, and
\* a seat may have been blocked, or reserved by a voucher, since it was taken.
HeldSeats ==
    {f \in [PositionIds -> SeatIds \cup {None}] :
        /\ f[4] = None
        /\ \A p \in PositionIds : f[p] # None
              => /\ Seats[f[p]].subevent_id = CartPositions[p].subevent_id
                 /\ ~Seats[f[p]].has_order
        /\ \A p1, p2 \in PositionIds : (p1 # p2 /\ f[p1] # None) => f[p1] # f[p2]}

\* Every layout with the mappings of the fixture and one ticket seated, or
\* the layout of the test with any configuration and any carts.
InitData ==
    /\ \/ /\ seating_plan \in {[present |-> TRUE, layout_data |-> l] : l \in Layouts}
          /\ enabled = TRUE
          /\ mappings = MappingUniverse
          /\ seat = [p \in PositionIds |-> IF p = 1 THEN 1 ELSE None]
       \/ /\ seating_plan \in {[present |-> TRUE, layout_data |-> TestLayout],
                               [present |-> FALSE, layout_data |-> <<>>]}
          /\ enabled \in BOOLEAN
          /\ mappings \in SUBSET MappingUniverse
          /\ seat \in HeldSeats
    /\ settings = DefaultSettings
    /\ ret = NoCall
    /\ InitWorkers

NextData ==
    \E cart \in Carts : \E subevent_id \in Subevents \cup {UnknownSubevent} :
        DataGet(cart, subevent_id)

SpecData == InitData /\ [][NextData]_vars

\* ------------------------------------------------------------ SeatingPlanSettingsForm
\* event.name
EventName == "Event"

\* The names of the layout categories that plans and uploads use.
CategoryNames == {"A", "B"}

\* The category lists of a layout: up to MaxCategories names, in any order,
\* a name possibly twice.
CategoryLists == UNION {[1..n -> CategoryNames] : n \in 0..MaxCategories}

\* The id of the plan the event of the fixture has, and the id the database
\* gives to the next SeatingPlan row.
StoredPlanId == 1
NewPlanId == 2

\* event.seating_plan is None.
NoPlan == [present |-> FALSE, layout_data |-> <<>>, id |-> None, name |-> ""]

\* layout_data with the given categories and no zones.
layout_with(categories) ==
    [categories |-> [i \in 1..Len(categories) |-> [name |-> categories[i]]], zones |-> <<>>]

\* The plan of the form tests.
StoredPlan ==
    [present |-> TRUE, layout_data |-> layout_with(<<"A", "B">>), id |-> StoredPlanId,
     name |-> "Plan"]

\* [c.name for c in plan.get_categories()]
get_categories(plan) ==
    [i \in 1..Len(Get(plan.layout_data, "categories", <<>>)) |->
        plan.layout_data["categories"][i]["name"]]

\* The bound forms: the plan name, the uploaded file (none, a JSON document
\* with its categories, or bytes that do not decode) and the products chosen
\* in the field of each category.
Forms ==
    [plan_name : {"", "Hall"},
     upload : {[kind |-> "none", categories |-> <<>>], [kind |-> "bad", categories |-> <<>>]}
              \cup {[kind |-> "json", categories |-> cs] : cs \in CategoryLists},
     cleaned : [CategoryNames -> SUBSET Products]]

\* _read_categories_from_upload sets _plan_data only for a document that
\* decodes.
has_plan_data(form) == form.upload.kind = "json"

\* _current_categories
_current_categories ==
    IF seating_plan.present THEN get_categories(seating_plan) ELSE <<>>

\* __init__, lines 37-40: the categories the form has fields for.
_category_names(form) ==
    IF has_plan_data(form) THEN form.upload.categories ELSE _current_categories

\* The POST carries a choice for the category fields of the form only.
fields_of_form(form) ==
    \A c \in CategoryNames :
        (\A i \in 1..Len(_category_names(form)) : _category_names(form)[i] # c)
            => form.cleaned[c] = {}

\* clean_plan_file and clean: the upload decodes, and there is a plan or an
\* upload.
is_valid(form) ==
    /\ form.upload.kind # "bad"
    /\ seating_plan.present \/ has_plan_data(form)

\* A _persist_category_mapping that hands the first product of every
\* category with products to generate_seats.
generated_entry_first(category, products) ==
    IF products # {}
    THEN [k \in {category} |-> CHOOSE x \in products : \A y \in products : x <= y]
    ELSE EmptyDict

\* _persist_category_mapping, lines 191-192
generated_entry(category, products) ==
    IF Cardinality(products) = 1
    THEN [k \in {category} |-> CHOOSE x \in products : TRUE]
    ELSE EmptyDict

\* _persist_category_mapping, lines 174-190: the rows of the category are
\* deleted and one row per product is created.
replace_rows(rows, category, products) ==
    {m \in rows : ~(m.subevent_id = None /\ m.layout_category = category)}
    \cup {[subevent_id |-> None, layout_category |-> category, product_id |-> x] : x \in products}

\* _persist_category_mapping, lines 169-192: the loop over the categories.
\* acc holds the rows, the mapping and the categories seen.
RECURSIVE persist_categories(_, _, _)
persist_categories(categories, cleaned, acc) ==
    IF categories = <<>> THEN acc
    ELSE persist_categories(
             Tail(categories), cleaned,
             [rows |-> replace_rows(acc.rows, Head(categories), cleaned[Head(categories)]),
              mapping |-> Update(acc.mapping,
                                 generated_entry(Head(categories), cleaned[Head(categories)])),
              seen |-> acc.seen \cup {Head(categories)}])

\* A _persist_category_mapping without the final delete.
drop_unseen_rows_never(rows, seen) == rows

\* _persist_category_mapping, lines 193-195
drop_unseen_rows(rows, seen) ==
    {m \in rows : ~(m.subevent_id = None /\ m.layout_category \notin seen)}

\* _persist_category_mapping: the rows afterwards and the mapping returned.
_persist_category_mapping(form) ==
    LET done == persist_categories(_category_names(form), form.cleaned,
                                   [rows |-> mappings, mapping |-> EmptyDict, seen |-> {}])
    IN  [rows |-> drop_unseen_rows(done.rows, done.seen), mapping |-> done.mapping]

\* save, line 133
plan_name_of(form) == IF form.plan_name # "" THEN form.plan_name ELSE EventName

\* A save that stores the plan but leaves the event as it is.
saved_event_plan_unchanged(form, plan) == seating_plan

\* save, lines 146-148: event.seating_plan after the save.
saved_event_plan(form, plan) ==
    IF seating_plan.id # plan.id THEN plan
    ELSE plan

\* save, lines 134-143: the plan the form stores and returns.
saved_plan(form) ==
    IF has_plan_data(form)
    THEN [present |-> TRUE, layout_data |-> layout_with(form.upload.categories),
          id |-> IF seating_plan.present THEN seating_plan.id ELSE NewPlanId,
          name |-> plan_name_of(form)]
    ELSE IF seating_plan.present /\ seating_plan.name # plan_name_of(form)
    THEN [seating_plan EXCEPT !.name = plan_name_of(form)]
    ELSE seating_plan

\* SeatingPlanSettingsForm.save, called for a valid form.  generate_seats is
\* pretix's; the call is recorded with the mapping it is given.
save(form) ==
    LET plan == saved_plan(form)
        persisted == _persist_category_mapping(form)
    IN  /\ seating_plan' = saved_event_plan(form, plan)
        /\ mappings' = persisted.rows
        /\ enabled' = TRUE
        /\ settings' = [seating_choice |-> FALSE, quse_seatingplan_name |-> plan_name_of(form)]
        /\ ret' = [call |-> "save", valid |-> TRUE,
                   categories |-> _category_names(form), cleaned |-> form.cleaned,
                   plan |-> plan, generate_seats |-> persisted.mapping]

\* A POST of the settings form: EventSettingsFormView saves a valid form and
\* shows an invalid one again.
SettingsPost(form) ==
    /\ fields_of_form(form)
    /\ IF is_valid(form)
       THEN save(form)
       ELSE /\ ret' = [call |-> "save", valid |-> FALSE,
                       categories |-> _category_names(form), cleaned |-> form.cleaned,
                       plan |-> NoPlan, generate_seats |-> EmptyDict]
            /\ UNCHANGED config
    /\ UNCHANGED <<seat, workers>>

\* A _plan_summary that collects the mapping rows of every subevent.
summary_products_any_subevent(name) ==
    {m.product_id : m \in {n \in mappings : n.layout_category = name}}

\* _plan_summary, lines 50-57: mappings.get(name, []).  The products come in
\* the order of the database and are kept as a set.
summary_products(name) ==
    {m.product_id : m \in {n \in mappings : n.subevent_id = None /\ n.layout_category = name}}

\* _plan_summary: None (present FALSE), or the name, the seat count and the
\* category rows.
_plan_summary ==
    IF ~seating_plan.present
    THEN [present |-> FALSE, name |-> "", seat_count |-> 0, categories |-> <<>>]
    ELSE [present |-> TRUE,
          name |-> seating_plan.name,
          seat_count |-> Cardinality({s \in SeatIds : Seats[s].subevent_id = None}),
          categories |->
              [i \in 1..Len(get_categories(seating_plan)) |->
                  [name |-> get_categories(seating_plan)[i],
                   products |-> summary_products(get_categories(seating_plan)[i])]]]

\* A GET of the settings page.
SettingsGet ==
    /\ ret' = [call |-> "plan_summary", summary |-> _plan_summary]
    /\ UNCHANGED <<config, seat, workers>>

\* The mapping rows before the form is saved: any rows of the event itself,
\* and the row of the subevent.
FormMappings ==
    {rows \cup {m \in MappingUniverse : m.subevent_id # None} :
        rows \in SUBSET {m \in MappingUniverse : m.subevent_id = None}}

\* An event without or with a plan, with any event-level mapping rows and
\* any settings.
InitForm ==
    /\ enabled \in BOOLEAN
    /\ settings \in {DefaultSettings, [seating_choice |-> FALSE, quse_seatingplan_name |-> "Plan"]}
    /\ seating_plan \in {NoPlan, StoredPlan}
    /\ mappings \in FormMappings
    /\ seat = [p \in PositionIds |-> None]
    /\ ret = NoCall
    /\ InitWorkers

NextForm ==
    \/ \E form \in Forms : SettingsPost(form)
    \/ SettingsGet

SpecForm == InitForm /\ [][NextForm]_vars

\* ------------------------------------------------------------ build_seatingframe_url
\* Texts of URLs are sequences of tokens: whole words where the code copies
\* them, single characters where it encodes them.
\* The characters of voucher codes: a letter, a blank and an ampersand.
CodeCharacters == {"P", " ", "&"}

\* Voucher codes of up to MaxCodeLen characters; the empty one stands for no
\* code (None and '' are both falsy).
VoucherCodes == UNION {[1..n -> CodeCharacters] : n \in 0..MaxCodeLen}

\* The pk of the subevent of the URL tests.
SubeventPk == 7

\* The subevent argument: None, a subevent object or a bare pk.
SubeventArguments ==
    {[kind |-> "none", pk |-> None], [kind |-> "object", pk |-> SubeventPk],
     [kind |-> "pk", pk |-> SubeventPk]}

\* The cart namespace argument: '' for none.
CartNamespaces == {"", "abcd1234"}

\* A quote_plus that leaves every character as it is.
quote_plus_char_unquoted(c) == <<c>>

\* urllib.parse.quote_plus for one character: letters stay, a blank becomes
\* '+', a reserved character its percent escape.
quote_plus_char(c) ==
    IF c = " " THEN <<"+">>
    ELSE IF c = "&" THEN <<"%", "2", "6">>
    ELSE <<c>>

\* urllib.parse.quote_plus
RECURSIVE quote_plus(_)
quote_plus(s) == IF s = <<>> THEN <<>> ELSE quote_plus_char(Head(s)) \o quote_plus(Tail(s))

\* urlencode(query) for the query of build_seatingframe_url.
urlencode(voucher_code) ==
    <<"iframe", "=", "1">>
    \o (IF voucher_code # <<>> THEN <<"&", "voucher", "=">> \o quote_plus(voucher_code) ELSE <<>>)

\* build_seatingframe_url, lines 8-12
frame_kwargs(subevent, cart_namespace) ==
    Update([k \in (IF subevent.kind # "none" THEN {"subevent"} ELSE {}) |-> subevent.pk],
           [k \in (IF cart_namespace # "" THEN {"cart_namespace"} ELSE {}) |-> cart_namespace])

\* eventreverse of pretix with the routes of urls.py: the path of the frame
\* for the kwargs.
eventreverse(urlname, kwargs) ==
    <<"/">>
    \o (IF "cart_namespace" \in DOMAIN kwargs THEN <<"w/", kwargs["cart_namespace"], "/">> ELSE <<>>)
    \o (IF "subevent" \in DOMAIN kwargs THEN <<ToString(kwargs["subevent"]), "/">> ELSE <<>>)
    \o <<"quse-seatingplan/frame/">>

\* build_seatingframe_url: the call of eventreverse and the URL returned.
build_seatingframe_url(subevent, cart_namespace, voucher_code) ==
    [urlname |-> "plugins:quse_seatingplan:frame",
     kwargs |-> frame_kwargs(subevent, cart_namespace),
     url |-> eventreverse("plugins:quse_seatingplan:frame", frame_kwargs(subevent, cart_namespace))
             \o <<"?">> \o urlencode(voucher_code)]

\* A call of build_seatingframe_url.
BuildUrl(subevent, cart_namespace, voucher_code) ==
    /\ ret' = [call |-> "build_seatingframe_url", subevent |-> subevent,
               cart_namespace |-> cart_namespace, voucher_code |-> voucher_code,
               result |-> build_seatingframe_url(subevent, cart_namespace, voucher_code)]
    /\ UNCHANGED <<config, seat, workers>>

InitUrl ==
    /\ enabled = TRUE
    /\ mappings = MappingUniverse
    /\ InitRequests

NextUrl ==
    \E subevent \in SubeventArguments : \E cart_namespace \in CartNamespaces :
        \E voucher_code \in VoucherCodes : BuildUrl(subevent, cart_namespace, voucher_code)

SpecUrl == InitUrl /\ [][NextUrl]_vars

\* ------------------------------------------------------------ claims
\* The request of a worker is an assignment that passed the checks of post.
IsAssign(r) == pc[r] \in {"select", "check", "write", "done"} /\ post_checks(rq[r]) = Pass
                 /\ rq[r].seat_guid # None
                 /\ seat_lookup(CartPositions[rq[r].cart_position].subevent_id, rq[r].seat_guid) # {}

\* C1: no double-booking.  Between two releases of a seat at most one cart is
\* answered 200 for it, and no seat is ever held by cart positions of two
\* different carts.
C1_NoDoubleBooking ==
    /\ \A s \in SeatIds : Cardinality(granted[s]) <= 1
    /\ \A p1, p2 \in PositionIds :
          (seat[p1] # None /\ CartPositions[p1].cart_id # CartPositions[p2].cart_id)
              => seat[p1] # seat[p2]

\* Two carts asked for the same seat at once: one holds it with a 200, the
\* other waited for the row lock and was answered 409.
C1_Witness ==
    \E r1, r2 \in Workers :
        /\ IsAssign(r1) /\ IsAssign(r2)
        /\ pc[r1] = "done" /\ pc[r2] = "done"
        /\ rq[r1].cart # rq[r2].cart
        /\ TargetSeat(rq[r1]) = TargetSeat(rq[r2])
        /\ out[r1].status = 200 /\ seat[rq[r1].cart_position] = TargetSeat(rq[r1])
        /\ out[r2].status = 409 /\ waited[r2]

\* The worker is inside the transaction.atomic() block with the row locked.
InCriticalSection(r) == pc[r] \in {"check", "write"}

\* C2: the row lock is held by the request from SELECT ... FOR UPDATE across
\* the availability check to the write, no request keeps a lock once it has
\* left _assign_seat by any exit, and under fair scheduling every request that
\* reaches SELECT ... FOR UPDATE is answered.
C2_LockHeldThenReleased ==
    /\ [](\A r \in Workers : InCriticalSection(r) => lock[TargetSeat(rq[r])] = r)
    /\ [](\A s \in SeatIds : lock[s] # None
            => InCriticalSection(lock[s]) /\ TargetSeat(rq[lock[s]]) = s)
    /\ \A r \in Workers : (pc[r] = "select") ~> (pc[r] = "done")

\* A request that found the seat row locked and waited has its response.
C2_Witness ==
    \E r \in Workers :
        /\ pc[r] = "done" /\ waited[r]
        /\ out[r].status \in {200, 409}
        /\ \A s \in SeatIds : lock[s] # r

\* The request a worker has answered targets a ticket of the requester's own
\* cart whose product is mapped for the ticket's subevent.
OwnMappedTicket(q) ==
    /\ q.kind = "object"
    /\ q.cart_position \in PositionIds
    /\ CartPositions[q.cart_position].event = ThisEvent
    /\ CartPositions[q.cart_position].cart_id = q.cart
    /\ \E m \in mappings :
          /\ m.subevent_id = CartPositions[q.cart_position].subevent_id
          /\ m.product_id = CartPositions[q.cart_position].item_id

\* The seats of the ticket's event and subevent that carry the guid and are
\* seats of the ticket's product.
SeatsOfProduct(q) ==
    {s \in SeatIds :
        /\ Seats[s].seat_guid = q.seat_guid
        /\ Seats[s].subevent_id = CartPositions[q.cart_position].subevent_id
        /\ Seats[s].product_id = CartPositions[q.cart_position].item_id}

\* Nothing but the ticket itself stands in the way of the seat.
FreeFor(s, pk) ==
    /\ ~Seats[s].blocked /\ ~Seats[s].has_order /\ ~Seats[s].has_voucher
    /\ \A p \in PositionIds : p # pk => seat[p] # s

\* C3: assign then clear, with one request at a time.  A request for a ticket
\* of the own cart with a mapped product that names an available seat of that
\* product is answered 200 and leaves the ticket holding that seat; a request
\* for such a ticket without seat_guid is answered 200 and leaves the ticket
\* without a seat, and the seat it held is available to every ticket.
C3_AssignThenClear ==
    /\ \A r \in Workers :
            (pc[r] = "done" /\ enabled /\ OwnMappedTicket(rq[r]) /\ rq[r].seat_guid # None)
               => \A s \in SeatsOfProduct(rq[r]) :
                     FreeFor(s, rq[r].cart_position)
                        => /\ out[r].status = 200
                           /\ out[r].seat_guid = rq[r].seat_guid
                           /\ seat[rq[r].cart_position] = s
    /\ \A r \in Workers :
            (pc[r] = "done" /\ enabled /\ OwnMappedTicket(rq[r]) /\ rq[r].seat_guid = None)
               => /\ out[r].status = 200
                  /\ out[r].seat_guid = None
                  /\ seat[rq[r].cart_position] = None
                  /\ out[r].released # None
                        => \A p \in PositionIds : FreeFor(out[r].released, p)

\* A ticket that had been given a seat by the view has been cleared again.
C3_Witness ==
    \E r \in Workers :
        /\ pc[r] = "done" /\ OwnMappedTicket(rq[r]) /\ rq[r].seat_guid = None
        /\ out[r].status = 200
        /\ out[r].released # None
        /\ seat[rq[r].cart_position] = None

\* The products of the event-level (subevent = None) mapping rows.
EventLevelProducts == {pr \in Products : \E m \in mappings : m.subevent_id = None /\ m.product_id = pr}

\* The tickets of a cart for the event.
TicketsOf(cart) ==
    {p \in PositionIds : CartPositions[p].cart_id = cart /\ CartPositions[p].event = ThisEvent}

\* The step applies to the cart.
StepApplies(cart) ==
    /\ enabled
    /\ seating_plan.present
    /\ EventLevelProducts # {}
    /\ \E p \in TicketsOf(cart) : CartPositions[p].item_id \in EventLevelProducts

\* C4: is_completed is False exactly when the step is applicable and some
\* ticket of the cart whose product is in the event-level mapped set has no
\* seat, and True otherwise.
C4_IsCompleted ==
    ret.call = "is_completed"
        => (ret.value = FALSE
              <=> /\ StepApplies(ret.cart)
                  /\ \E p \in TicketsOf(ret.cart) :
                        CartPositions[p].item_id \in EventLevelProducts /\ seat[p] = None)

\* The step applies, the first mapped ticket has its seat and a later one has
\* none: is_completed answered False.
C4_Witness ==
    /\ ret.call = "is_completed" /\ ret.value = FALSE
    /\ StepApplies(ret.cart)
    /\ \E p1, p2 \in TicketsOf(ret.cart) :
          /\ p1 < p2
          /\ CartPositions[p1].item_id \in EventLevelProducts /\ seat[p1] # None
          /\ CartPositions[p2].item_id \in EventLevelProducts /\ seat[p2] = None

\* C5: is_applicable is True if and only if the plugin is enabled, the event
\* has a seating plan, there is an event-level mapping and a ticket of the
\* cart has a product of the event-level mapped set.
C5_IsApplicable ==
    ret.call = "is_applicable" => (ret.value = TRUE <=> StepApplies(ret.cart))

\* The event is set up for seating, the cart holds tickets, none of them of an
\* event-level mapped product: is_applicable answered False.
C5_Witness ==
    /\ ret.call = "is_applicable" /\ ret.value = FALSE
    /\ enabled /\ seating_plan.present /\ EventLevelProducts # {}
    /\ mappings # {m \in mappings : m.subevent_id = None}
    /\ TicketsOf(ret.cart) # {}
    /\ \A p \in TicketsOf(ret.cart) : CartPositions[p].item_id \notin EventLevelProducts

\* The product of the position is mapped at event level or for its subevent.
SeatMapped(pos) ==
    \E m \in mappings :
        m.product_id = pos.item_id /\ m.subevent_id \in {None, pos.subevent_id}

\* C6: with the plugin enabled the patched _check_positions hands every
\* position of a seat-mapped product (event-level or of the position's
\* subevent) to the original with requires_seat = True and changes nothing
\* else; a cart whose tickets are all seat-mapped and hold a seat of their
\* product is then not refused, and the order positions of an order carry the
\* seats of the cart positions they come from.
C6_OrderKeepsSeats ==
    ret.call = "perform_order" =>
        /\ DOMAIN ret.checked = DOMAIN ret.positions
        /\ \A i \in DOMAIN ret.positions :
              /\ (enabled /\ SeatMapped(ret.positions[i])) => ret.checked[i].requires_seat = TRUE
              /\ ret.checked[i] =
                    [ret.positions[i] EXCEPT !.requires_seat = @ \/ (enabled /\ SeatMapped(ret.positions[i]))]
        /\ (/\ enabled
            /\ \A i \in DOMAIN ret.positions :
                  /\ SeatMapped(ret.positions[i])
                  /\ seat[ret.positions[i].pk] # None
                  /\ Seats[seat[ret.positions[i].pk]].product_id = ret.positions[i].item_id)
              => ~ret.error
        /\ ~ret.error =>
              /\ DOMAIN ret.order = DOMAIN ret.positions
              /\ \A i \in DOMAIN ret.order :
                    /\ ret.order[i].cart_position = ret.positions[i].pk
                    /\ ret.order[i].seat = seat[ret.positions[i].pk]

\* An order of a cart whose ticket the host annotated as needing no seat: the
\* ticket is mapped for its subevent only, holds a seat, and the order
\* position carries that seat.
C6_Witness ==
    /\ ret.call = "perform_order" /\ enabled /\ ~ret.error
    /\ \E i \in DOMAIN ret.positions :
          /\ ~ret.positions[i].requires_seat
          /\ ret.positions[i].subevent_id # None
          /\ SeatMapped(ret.positions[i])
          /\ ret.positions[i].item_id \notin EventLevelProducts
          /\ seat[ret.positions[i].pk] # None
          /\ ret.order[i].seat = seat[ret.positions[i].pk]

\* The response of the data view, when it was the last call and answered 200.
DataAnswered == ret.call = "data" /\ ret.response.status = 200

\* The zones of the stored layout.
ZonesOf(layout_data) ==
    IF "layout" \in DOMAIN layout_data THEN layout_data.layout.zones ELSE layout_data.zones

\* Every area of the layout with its zone, in document order.
RECURSIVE AreasInOrder(_)
AreasInOrder(zones) ==
    IF zones = <<>> THEN <<>>
    ELSE [i \in 1..Len(Head(zones).areas) |-> [zone |-> Head(zones), area |-> Head(zones).areas[i]]]
         \o AreasInOrder(Tail(zones))

\* The areas that have a shape, in document order.
ShapedAreas ==
    SelectSeq(AreasInOrder(ZonesOf(seating_plan.layout_data)),
              LAMBDA e : "shape" \in DOMAIN e.area)

\* A coordinate of a position that may be missing, 0 when it is.
Coord(obj, k) ==
    IF "position" \in DOMAIN obj /\ k \in DOMAIN obj.position THEN obj.position[k] ELSE 0

\* The base offset of an area: zone position plus area position.
BaseOf(e, k) == Coord(e.zone, k) + Coord(e.area, k)

\* C7: the shapes of the payload are one primitive per area with a shape, in
\* document order; x and y of a primitive are zone position plus area
\* position, missing positions counting as 0; the points of a polygon and the
\* coordinates of a text are translated by the same offset.
C7_ShapesProjectLayout ==
    DataAnswered =>
        LET shapes == ret.response.payload.shapes
        IN  /\ Len(shapes) = Len(ShapedAreas)
            /\ \A i \in 1..Len(ShapedAreas) :
                 LET e == ShapedAreas[i]
                     raw == IF "polygon" \in DOMAIN e.area THEN e.area.polygon.points ELSE <<>>
                 IN  /\ shapes[i].type = e.area.shape
                     /\ shapes[i].x = BaseOf(e, "x")
                     /\ shapes[i].y = BaseOf(e, "y")
                     /\ e.area.shape = "polygon" =>
                          /\ Len(shapes[i].points) = Len(raw)
                          /\ \A j \in 1..Len(raw) :
                               /\ shapes[i].points[j].x =
                                    BaseOf(e, "x") + (IF "x" \in DOMAIN raw[j] THEN raw[j].x ELSE 0)
                               /\ shapes[i].points[j].y =
                                    BaseOf(e, "y") + (IF "y" \in DOMAIN raw[j] THEN raw[j].y ELSE 0)
                     /\ e.area.shape = "text" =>
                          /\ shapes[i].text_x = BaseOf(e, "x") + Coord(e.area.text, "x")
                          /\ shapes[i].text_y = BaseOf(e, "y") + Coord(e.area.text, "y")

\* A layout of two moved zones with an area without shape was projected; it
\* has a polygon with points and a text.
C7_Witness ==
    /\ DataAnswered
    /\ Len(ZonesOf(seating_plan.layout_data)) = 2
    /\ "position" \in DOMAIN ZonesOf(seating_plan.layout_data)[1]
    /\ Len(ShapedAreas) < Len(AreasInOrder(ZonesOf(seating_plan.layout_data)))
    /\ \E i \in 1..Len(ret.response.payload.shapes) :
         /\ ret.response.payload.shapes[i].type = "polygon"
         /\ ret.response.payload.shapes[i].points # <<>>
    /\ \E i \in 1..Len(ret.response.payload.shapes) :
         ret.response.payload.shapes[i].type = "text"

\* The points a primitive of the payload draws.
PointsOf(d) ==
    (IF d.type = "rectangle"
     THEN {<<Num(d.x), Num(d.y)>>, <<Num(d.x + d.width), Num(d.y + d.height)>>}
     ELSE IF d.type = "circle"
     THEN {<<Num(d.x - d.radius), Num(d.y - d.radius)>>,
           <<Num(d.x + d.radius), Num(d.y + d.radius)>>}
     ELSE IF d.type = "ellipse"
     THEN {<<Num(d.x - d.radius_x), Num(d.y - d.radius_y)>>,
           <<Num(d.x + d.radius_x), Num(d.y + d.radius_y)>>}
     ELSE IF d.type = "polygon"
     THEN {<<Num(d.points[j].x), Num(d.points[j].y)>> : j \in 1..Len(d.points)}
     ELSE {<<Num(d.text_x), Num(d.text_y)>>})
    \cup (IF "label" \in DOMAIN d THEN {<<d.label_x, d.label_y>>} ELSE {})

\* Every point the payload draws: seats, shapes, texts and labels.
DrawnPoints(payload) ==
    {<<Num(payload.seats[i].x), Num(payload.seats[i].y)>> : i \in 1..Len(payload.seats)}
    \cup UNION {PointsOf(payload.shapes[i]) : i \in 1..Len(payload.shapes)}

\* C8: the bounds of the payload are all null and nothing contributed a
\* point, or min_x <= max_x, min_y <= max_y and every seat, rectangle corner,
\* circle and ellipse extent, polygon point, text and label coordinate lies
\* within them.
C8_BoundsEncloseDrawing ==
    DataAnswered =>
        LET b == ret.response.payload.meta.bounds
            drawn == DrawnPoints(ret.response.payload)
        IN  \/ /\ IsNone(b.min_x) /\ IsNone(b.max_x) /\ IsNone(b.min_y) /\ IsNone(b.max_y)
               /\ drawn = {}
            \/ /\ ~IsNone(b.min_x) /\ ~IsNone(b.max_x) /\ ~IsNone(b.min_y) /\ ~IsNone(b.max_y)
               /\ ~Less(b.max_x, b.min_x)
               /\ ~Less(b.max_y, b.min_y)
               /\ \A pt \in drawn :
                    /\ ~Less(pt[1], b.min_x) /\ ~Less(b.max_x, pt[1])
                    /\ ~Less(pt[2], b.min_y) /\ ~Less(b.max_y, pt[2])

\* The bounds of a payload with seats were widened to the left of and below
\* every seat by a shape, and a label was drawn.
C8_Witness ==
    /\ DataAnswered
    /\ ret.response.payload.seats # <<>>
    /\ Less(ret.response.payload.meta.bounds.min_x, Num(0))
    /\ Less(ret.response.payload.meta.bounds.min_y, Num(0))
    /\ \E i \in 1..Len(ret.response.payload.shapes) :
         "label" \in DOMAIN ret.response.payload.shapes[i]

\* A payload without any point: no seat, and only shapes that draw nothing.
C8_WitnessNull ==
    /\ DataAnswered
    /\ ret.response.payload.shapes # <<>>
    /\ IsNone(ret.response.payload.meta.bounds.min_x)

\* s is raw without its leading and trailing blanks, and is not empty.
IsStripped(s, raw) ==
    /\ s # <<>> /\ s[1] # " " /\ s[Len(s)] # " "
    /\ \E lead \in 0..Len(raw) :
         /\ lead + Len(s) <= Len(raw)
         /\ SubSeq(raw, lead + 1, lead + Len(s)) = s
         /\ \A k \in 1..Len(raw) : (k <= lead \/ k > lead + Len(s)) => raw[k] = " "

\* The area has a text object whose text is not blank.
HasLabelText(area) ==
    /\ "text" \in DOMAIN area /\ "text" \in DOMAIN area.text
    /\ \E k \in 1..Len(area.text.text) : area.text.text[k] # " "

\* The label position given for the area: that of the text object, else that
\* of the area, else none ({}).
GivenLabelPosition(area) ==
    IF "position" \in DOMAIN area.text /\ DOMAIN area.text.position # {} THEN area.text.position
    ELSE IF "label_position" \in DOMAIN area THEN area.label_position
    ELSE EmptyDict

\* The centre of the shape of a primitive d of area e.
CentreOf(e, d, k) ==
    IF d.type = "rectangle"
    THEN Quot(2 * BaseOf(e, k) + (IF k = "x" THEN d.width ELSE d.height), 2)
    ELSE IF d.type = "polygon" /\ d.points # <<>>
    THEN Quot(sum_of(d.points, k), Len(d.points))
    ELSE Num(BaseOf(e, k))

LabelFields == {"label", "label_x", "label_y", "label_color", "label_size"}

\* C9: a primitive that is not a text and whose area has a text object with a
\* text that is not blank carries that text stripped as label, the color and
\* the size of the text object as label_color and label_size when they are
\* set, and as label coordinates base plus label position when one is given,
\* otherwise the centre of the shape; a text primitive has no label field.
C9_AreaLabels ==
    DataAnswered =>
        \A i \in 1..Len(ShapedAreas) :
            LET e == ShapedAreas[i]
                d == ret.response.payload.shapes[i]
            IN  /\ e.area.shape = "text" => DOMAIN d \cap LabelFields = {}
                /\ (e.area.shape # "text" /\ HasLabelText(e.area)) =>
                     /\ "label" \in DOMAIN d
                     /\ IsStripped(d.label, e.area.text.text)
                     /\ ("color" \in DOMAIN e.area.text /\ e.area.text.color # "")
                           => ("label_color" \in DOMAIN d /\ d.label_color = e.area.text.color)
                     /\ "color" \notin DOMAIN e.area.text => "label_color" \notin DOMAIN d
                     /\ ("size" \in DOMAIN e.area.text /\ e.area.text.size # 0)
                           => ("label_size" \in DOMAIN d /\ d.label_size = e.area.text.size)
                     /\ "size" \notin DOMAIN e.area.text => "label_size" \notin DOMAIN d
                     /\ IF DOMAIN GivenLabelPosition(e.area) # {}
                        THEN /\ Same(d.label_x,
                                     Num(BaseOf(e, "x") + Get(GivenLabelPosition(e.area), "x", 0)))
                             /\ Same(d.label_y,
                                     Num(BaseOf(e, "y") + Get(GivenLabelPosition(e.area), "y", 0)))
                        ELSE /\ Same(d.label_x, CentreOf(e, d, "x"))
                             /\ Same(d.label_y, CentreOf(e, d, "y"))

\* A label with blanks around it was stripped and placed by its position, and
\* another label was placed at a centre that is not a whole number.
C9_Witness ==
    /\ DataAnswered
    /\ \E i \in 1..Len(ShapedAreas) :
         /\ ShapedAreas[i].area.shape # "text"
         /\ HasLabelText(ShapedAreas[i].area)
         /\ Len(ShapedAreas[i].area.text.text) > Len(ret.response.payload.shapes[i].label)
         /\ DOMAIN GivenLabelPosition(ShapedAreas[i].area) # {}
         /\ "label_color" \in DOMAIN ret.response.payload.shapes[i]
    /\ \E i \in 1..Len(ShapedAreas) :
         /\ "label" \in DOMAIN ret.response.payload.shapes[i]
         /\ DOMAIN GivenLabelPosition(ShapedAreas[i].area) = {}
         /\ ret.response.payload.shapes[i].label_x.num % ret.response.payload.shapes[i].label_x.den # 0
    /\ \E i \in 1..Len(ShapedAreas) : ShapedAreas[i].area.shape = "text"

\* The tickets of the requester's cart whose product is mapped for the
\* requested subevent and whose subevent is the requested one.
SeatTickets(cart, subevent) ==
    {p \in PositionIds :
        /\ CartPositions[p].cart_id = cart /\ CartPositions[p].event = ThisEvent
        /\ \E m \in mappings : m.subevent_id = subevent /\ m.product_id = CartPositions[p].item_id
        /\ CartPositions[p].subevent_id = subevent}

\* C10: cart_positions lists exactly the requester's tickets whose product is
\* mapped for the requested subevent and whose subevent is the requested one,
\* each once; needs_seat of an entry holds exactly when the ticket has no
\* seat; meta.needs_seats is the number of listed tickets without a seat.
C10_CartPositionsListed ==
    DataAnswered =>
        LET tickets == ret.response.payload.cart_positions
        IN  /\ {tickets[i].id : i \in 1..Len(tickets)} = SeatTickets(ret.cart, ret.subevent)
            /\ Len(tickets) = Cardinality(SeatTickets(ret.cart, ret.subevent))
            /\ \A i \in 1..Len(tickets) : tickets[i].needs_seat <=> (seat[tickets[i].id] = None)
            /\ ret.response.payload.meta.needs_seats =
                 Cardinality({p \in SeatTickets(ret.cart, ret.subevent) : seat[p] = None})

\* A ticket without a seat was listed, while another ticket of the same cart,
\* of a product mapped for the requested subevent, was left out because it is
\* for another subevent.
C10_Witness ==
    /\ DataAnswered
    /\ ret.response.payload.meta.needs_seats = 1
    /\ \E p \in PositionIds \ SeatTickets(ret.cart, ret.subevent) :
         /\ CartPositions[p].cart_id = ret.cart /\ CartPositions[p].event = ThisEvent
         /\ \E m \in mappings : m.subevent_id = ret.subevent /\ m.product_id = CartPositions[p].item_id

\* A listed ticket holds a seat, so that needs_seat is False for it.
C10_WitnessSeated ==
    /\ DataAnswered
    /\ \E i \in 1..Len(ret.response.payload.cart_positions) :
         ~ret.response.payload.cart_positions[i].needs_seat

\* The settings form was saved by the last call.
Saved == ret.call = "save" /\ ret.valid

\* C11: after a successful save the settings have seating_choice = False and
\* quse_seatingplan_checkout_enabled = True, and the seating plan of the
\* event is the plan that save returned.
C11_SaveSettings ==
    Saved =>
        /\ settings.seating_choice = FALSE
        /\ enabled = TRUE
        /\ seating_plan.present
        /\ seating_plan.id = ret.plan.id
        /\ seating_plan = ret.plan

\* An upload was saved for an event that had no plan: save made a new plan.
C11_Witness ==
    /\ Saved
    /\ ret.plan.id = NewPlanId
    /\ ret.categories # <<>>

\* The categories the saved form had fields for.
FormCategories == {ret.categories[i] : i \in 1..Len(ret.categories)}

\* The products of the event-level mapping rows of a category.
ProductsOfCategory(c) ==
    {m.product_id : m \in {n \in mappings : n.subevent_id = None /\ n.layout_category = c}}

\* C12: after a save, every category of the form has the selected products
\* as its event-level mapping rows, and the mapping given to generate_seats
\* holds a category, with its product, exactly when one product was selected
\* for it.
C12_SeveralProducts ==
    Saved =>
        /\ \A c \in FormCategories :
             /\ ProductsOfCategory(c) = ret.cleaned[c]
             /\ c \in DOMAIN ret.generate_seats <=> Cardinality(ret.cleaned[c]) = 1
             /\ c \in DOMAIN ret.generate_seats => ret.generate_seats[c] \in ret.cleaned[c]
        /\ DOMAIN ret.generate_seats \subseteq FormCategories

\* A form was saved with two products for one category and one product for
\* another: only the second is handed to generate_seats.
C12_Witness ==
    /\ Saved
    /\ \E c1, c2 \in FormCategories :
         /\ Cardinality(ret.cleaned[c1]) = 2
         /\ Cardinality(ret.cleaned[c2]) = 1
         /\ DOMAIN ret.generate_seats = {c2}
         /\ Cardinality(ProductsOfCategory(c1)) = 2

\* The URL of the frame was built by the last call.
UrlBuilt == ret.call = "build_seatingframe_url"

\* The kwargs of the reverse hold 'subevent', the pk, only when a subevent is
\* given and 'cart_namespace' only when a cart namespace is given, and the
\* route is the frame.
KwargsAsGiven ==
    /\ ret.result.urlname = "plugins:quse_seatingplan:frame"
    /\ "subevent" \in DOMAIN ret.result.kwargs <=> ret.subevent.kind # "none"
    /\ "subevent" \in DOMAIN ret.result.kwargs => ret.result.kwargs["subevent"] = ret.subevent.pk
    /\ "cart_namespace" \in DOMAIN ret.result.kwargs <=> ret.cart_namespace # ""
    /\ "cart_namespace" \in DOMAIN ret.result.kwargs
          => ret.result.kwargs["cart_namespace"] = ret.cart_namespace

\* The URL is the reversed URL, '?iframe=1' and, when a voucher code is
\* given, '&voucher=' and the given text.
UrlWithQuery(voucher_text) ==
    ret.result.url =
        eventreverse(ret.result.urlname, ret.result.kwargs) \o <<"?", "iframe", "=", "1">>
        \o (IF ret.voucher_code # <<>> THEN <<"&", "voucher", "=">> \o voucher_text ELSE <<>>)

\* The voucher code as a query value: blanks as '+', ampersands as '%26'.
RECURSIVE Escaped(_)
Escaped(code) ==
    IF code = <<>> THEN <<>>
    ELSE (CASE Head(code) = " " -> <<"+">>
            [] Head(code) = "&" -> <<"%", "2", "6">>
            [] OTHER -> <<Head(code)>>) \o Escaped(Tail(code))

\* C13 as stated: the kwargs follow the arguments, and the URL ends with
\* 'iframe=1' and, when a voucher code is given, '&voucher=' and the code.
C13_UrlWithCode == UrlBuilt => (KwargsAsGiven /\ UrlWithQuery(ret.voucher_code))

\* C13, amended: the kwargs follow the arguments, and the URL ends with
\* 'iframe=1' and, when a voucher code is given, '&voucher=' and the code as
\* urlencode quotes it.
C13_UrlWithQuotedCode == UrlBuilt => (KwargsAsGiven /\ UrlWithQuery(Escaped(ret.voucher_code)))

\* A URL was built for a subevent, a cart namespace and a voucher code with
\* a blank and an ampersand in it.
C13_Witness ==
    /\ UrlBuilt
    /\ ret.subevent.kind = "object"
    /\ ret.cart_namespace # ""
    /\ \E i, j \in 1..Len(ret.voucher_code) : ret.voucher_code[i] = " " /\ ret.voucher_code[j] = "&"

\* C14: _plan_summary is None for an event without seating plan; otherwise
\* seat_count is the number of seats of the event with subevent = None, and
\* categories has one row per category of the plan, in the order of the plan,
\* with exactly the products of the event-level mapping rows of the category.
C14_PlanSummary ==
    ret.call = "plan_summary" =>
        IF ~seating_plan.present THEN ~ret.summary.present
        ELSE /\ ret.summary.present
             /\ ret.summary.seat_count = Cardinality({s \in SeatIds : Seats[s].subevent_id = None})
             /\ Len(ret.summary.categories) = Len(seating_plan.layout_data.categories)
             /\ \A i \in 1..Len(ret.summary.categories) :
                  /\ ret.summary.categories[i].name = seating_plan.layout_data.categories[i].name
                  /\ ret.summary.categories[i].products =
                       ProductsOfCategory(seating_plan.layout_data.categories[i].name)

\* A summary was made of a plan with a category of two products and a
\* category without products, while a subevent has a mapping row.
C14_Witness ==
    /\ ret.call = "plan_summary"
    /\ ret.summary.present
    /\ \E i, j \in 1..Len(ret.summary.categories) :
         /\ Cardinality(ret.summary.categories[i].products) = 2
         /\ ret.summary.categories[j].products = {}
         /\ \E m \in mappings :
              m.subevent_id # None /\ m.layout_category = ret.summary.categories[j].name

\* A summary was asked of an event without seating plan.
C14_WitnessNone == ret.call = "plan_summary" /\ ~ret.summary.present

\* The seat of the requested subevent that an entry of the payload shows.
SeatShown(entry) ==
    CHOOSE s \in SeatIds :
        Seats[s].subevent_id = ret.subevent /\ Seats[s].seat_guid = entry.guid

\* A listed ticket of the requester holds the seat.
HeldByRequester(s) == \E p \in SeatTickets(ret.cart, ret.subevent) : seat[p] = s

\* C15: every seat of the requested subevent is shown once with one status:
\* 'mine' when a listed ticket of the requester holds it, otherwise 'blocked'
\* when it is blocked, otherwise 'taken' when it has an order, a cart or a
\* voucher, otherwise 'free'.
C15_SeatStatus ==
    DataAnswered =>
        LET shown == ret.response.payload.seats
        IN  /\ {shown[i].guid : i \in 1..Len(shown)} =
                 {Seats[s].seat_guid : s \in {x \in SeatIds : Seats[x].subevent_id = ret.subevent}}
            /\ Len(shown) = Cardinality({x \in SeatIds : Seats[x].subevent_id = ret.subevent})
            /\ \A i \in 1..Len(shown) :
                 LET s == SeatShown(shown[i])
                 IN  shown[i].status =
                       IF HeldByRequester(s) THEN "mine"
                       ELSE IF Seats[s].blocked THEN "blocked"
                       ELSE IF \/ Seats[s].has_order
                               \/ Seats[s].has_voucher
                               \/ \E p \in PositionIds : seat[p] = s
                            THEN "taken"
                       ELSE "free"

\* A payload shows a blocked seat of the requester as 'mine', the
\* seat with an order as 'taken' and a seat as 'free'.
C15_Witness ==
    /\ DataAnswered
    /\ \E i, j, k \in 1..Len(ret.response.payload.seats) :
         /\ ret.response.payload.seats[i].status = "mine"
         /\ Seats[SeatShown(ret.response.payload.seats[i])].blocked
         /\ ret.response.payload.seats[j].status = "taken"
         /\ Seats[SeatShown(ret.response.payload.seats[j])].has_order
         /\ ret.response.payload.seats[k].status = "free"

\* The answer the order of the checks gives to request q in the current
\* state: the first check that fails, 200 when none does.  A request without
\* seat_guid names no seat, and the checks of the seat do not apply to it.
AnswerInOrder(q) ==
    IF ~enabled THEN <<404, "Seat selection is disabled for this event.">>
    ELSE IF q.kind = "bad" THEN <<400, "Invalid payload.">>
    ELSE IF q.cart_position = None THEN <<400, "Cart position is required.">>
    ELSE IF q.cart_position \notin PositionIds \/ CartPositions[q.cart_position].event # ThisEvent
         THEN <<404, "Ticket could not be found.">>
    ELSE IF CartPositions[q.cart_position].cart_id # q.cart
         THEN <<403, "This ticket is not part of your cart.">>
    ELSE IF ~OwnMappedTicket(q) THEN <<400, "This product is not connected to the seating plan.">>
    ELSE IF q.seat_guid = None THEN <<200, "">>
    ELSE IF \A s \in SeatIds :
               ~(/\ Seats[s].seat_guid = q.seat_guid
                 /\ Seats[s].subevent_id = CartPositions[q.cart_position].subevent_id)
         THEN <<404, "Seat could not be found.">>
    ELSE LET s == CHOOSE x \in SeatIds :
                     /\ Seats[x].seat_guid = q.seat_guid
                     /\ Seats[x].subevent_id = CartPositions[q.cart_position].subevent_id
         IN  IF Seats[s].product_id # None /\ Seats[s].product_id # CartPositions[q.cart_position].item_id
             THEN <<409, "Seat belongs to a different product.">>
             ELSE IF ~FreeFor(s, q.cart_position) THEN <<409, "Seat is already taken.">>
             ELSE <<200, "">>

\* C16: with one request at a time, the response of a request is that of
\* the first failing check in the order disabled 404, undecodable body 400,
\* missing cart_position 400, unknown cart position 404, other cart 403,
\* product not mapped 400, unknown seat 404, seat of a different product 409,
\* seat not available 409, and 200 only when no check fails.
C16_ChecksInOrder ==
    \A r \in Workers :
        pc[r] = "done" => <<out[r].status, out[r].error>> = AnswerInOrder(rq[r])

\* A request passed every check up to the last and was refused there: the
\* seat it names is held by a ticket of the other cart.
C16_Witness ==
    \E r \in Workers :
        /\ pc[r] = "done"
        /\ out[r].status = 409
        /\ out[r].error = "Seat is already taken."
        /\ \E p \in PositionIds :
             /\ CartPositions[p].cart_id # rq[r].cart
             /\ seat[p] # None
             /\ Seats[seat[p]].seat_guid = rq[r].seat_guid

\* A step is a GET of the data view that is answered as the claim says, for
\* the given reading of 'there is no seating plan', and that leaves the
\* seats of the tickets, the mappings and the configuration as they were.
GetStep(no_plan(_)) ==
    (ret' # ret /\ ret'.call = "data") =>
        /\ ret'.response.status =
             IF ~enabled \/ ret'.subevent \notin Subevents \/ no_plan(ret'.subevent)
             THEN 404 ELSE 200
        /\ ret'.response.status = 404 => ret'.response.error # ""
        /\ ret'.response.status = 200 => "payload" \in DOMAIN ret'.response
        /\ UNCHANGED <<seat, mappings, seating_plan, enabled, settings, lock>>

\* Neither the subevent nor the event has a seating plan.
NeitherHasPlan(subevent) ==
    /\ ~seating_plan.present
    /\ subevent # None => ~subevent_seating_plan(subevent).present

\* The subevent, when one is requested, and the event otherwise has no
\* seating plan.
OwnerHasNoPlan(subevent) ==
    IF subevent # None THEN ~subevent_seating_plan(subevent).present ELSE ~seating_plan.present

SeatMissing(cart) ==
    \E p \in TicketsOf(cart) :
        CartPositions[p].item_id \in EventLevelProducts /\ seat[p] = None

\* The step is completed for the cart: it does not apply to it, or no seat is
\* missing.
StepCompleted(cart) == ~StepApplies(cart) \/ ~SeatMissing(cart)

\* C18: a POST of the checkout step redirects only when the step is
\* completed; while the step applies to the cart and a ticket of a
\* seat-mapped product has no seat, every POST renders the step again with
\* the error message and does not redirect.
C18_PostNeedsSeats ==
    [][(ret' # ret /\ ret'.call = "post") =>
          /\ ret'.result.response = "redirect"
                => (StepCompleted(ret'.cart) /\ ret'.result.url = ret'.next_url)
          /\ (StepApplies(ret'.cart) /\ SeatMissing(ret'.cart))
                => /\ ret'.result.response = "render"
                   /\ ret'.result.messages =
                        <<"Please choose seats for every ticket before continuing.">>
          /\ UNCHANGED <<seat, config>>]_vars

\* A POST with a next step to go to was rendered again because a seat is
\* missing, in a cart that also holds a seated ticket.
C18_Witness ==
    /\ ret.call = "post" /\ ret.next_url # NoUrl
    /\ StepApplies(ret.cart) /\ SeatMissing(ret.cart)
    /\ \E p \in TicketsOf(ret.cart) : seat[p] # None
    /\ ret.result.response = "render"

\* A POST was redirected to the next step: every seat-mapped ticket is seated.
C18_WitnessRedirect ==
    /\ ret.call = "post"
    /\ ret.result.response = "redirect"
    /\ StepApplies(ret.cart)

ErrorStatuses == {400, 403, 404, 409}

\* The worker's request gets its response in this step.
Answered(r) == pc[r] # "done" /\ pc'[r] = "done"

\* C19: a request of SeatAssignmentView that ends with 400, 403, 404 or 409
\* leaves the seat of every cart position as it was, the seat of the targeted
\* cart position included: no step of a request writes a seat but the one
\* that answers 200, and the step that answers with an error writes none.
C19_ErrorsKeepSeats ==
    [][/\ \A r \in Workers :
             (Answered(r) /\ out'[r].status \in ErrorStatuses) => seat' = seat
       /\ seat' # seat =>
             \E r \in Workers : Answered(r) /\ out'[r].status = 200
       /\ \A r \in Workers : Answered(r) => out'[r].status \in ErrorStatuses \cup {200}]_vars

\* A ticket that holds a seat asked for a seat another ticket holds and was
\* answered 409: it still holds its seat.
C19_Witness ==
    \E r \in Workers :
        /\ pc[r] = "done" /\ out[r].status = 409
        /\ out[r].error = "Seat is already taken."
        /\ seat[rq[r].cart_position] # None

\* The request names a cart position that is not of the session's cart.
NamesForeignPosition(q) ==
    /\ q.kind = "object"
    /\ q.cart_position \in PositionIds
    /\ CartPositions[q.cart_position].cart_id # q.cart

\* C20: cart isolation.  The seat of a cart position changes only by a
\* request of the session whose cart the position is in, for a position of
\* the request's event; a request that names a position of another cart
\* changes no seat, whether it asks to assign or to clear, and is answered
\* 403 when it names a position of the event and the plugin is enabled.
C20_CartIsolation ==
    [][/\ \A p \in PositionIds : seat'[p] # seat[p] =>
             \E r \in Workers :
                 /\ Answered(r) /\ out'[r].status = 200
                 /\ rq'[r].cart_position = p
                 /\ CartPositions[p].cart_id = rq'[r].cart
                 /\ CartPositions[p].event = ThisEvent
       /\ \A r \in Workers : (Answered(r) /\ NamesForeignPosition(rq'[r])) =>
             /\ seat' = seat
             /\ out'[r].status \in {403, 404}
             /\ (enabled /\ CartPositions[rq'[r].cart_position].event = ThisEvent)
                    => out'[r].status = 403]_vars

\* The session of one cart asked to clear the seat of a ticket of the other
\* cart: it was answered 403 and the ticket holds its seat.
C20_Witness ==
    \E r \in Workers :
        /\ pc[r] = "done" /\ out[r].status = 403
        /\ rq[r].seat_guid = None
        /\ seat[rq[r].cart_position] # None

\* The session of one cart asked for a free seat for a ticket of the other
\* cart: it was answered 403 and the ticket has no seat.
C20_WitnessAssign ==
    \E r \in Workers :
        /\ pc[r] = "done" /\ out[r].status = 403
        /\ rq[r].seat_guid # None
        /\ seat_lookup(CartPositions[rq[r].cart_position].subevent_id, rq[r].seat_guid) # {}
        /\ seat[rq[r].cart_position] = None

\* The event of a seat row: the rows of the model are request.event.seats.
EventOfSeat(s) == ThisEvent

\* C21: at any time, whatever requests SeatAssignmentView has served, a seat
\* held by a cart position is of the event and of the subevent of that
\* position, and its product is unset or the product of the position.
C21_SeatMatchesPosition ==
    \A p \in PositionIds : seat[p] # None =>
        /\ EventOfSeat(seat[p]) = CartPositions[p].event
        /\ Seats[seat[p]].subevent_id = CartPositions[p].subevent_id
        /\ Seats[seat[p]].product_id \in {None, CartPositions[p].item_id}

\* After several requests a ticket of a subevent holds a seat of its product
\* and a ticket of the event itself holds a seat without product.
C21_Witness ==
    /\ \E p \in PositionIds :
          /\ seat[p] # None /\ CartPositions[p].subevent_id # None
          /\ Seats[seat[p]].product_id = CartPositions[p].item_id
    /\ \E p \in PositionIds :
          /\ seat[p] # None /\ CartPositions[p].subevent_id = None
          /\ Seats[seat[p]].product_id = None

\* The checkout step demands a seat for the ticket: the step is not completed
\* for the cart of the ticket, and the ticket is of an event-level mapped
\* product and has no seat.
SeatDemanded(p) ==
    /\ CartPositions[p].event = ThisEvent
    /\ StepApplies(CartPositions[p].cart_id)
    /\ CartPositions[p].item_id \in EventLevelProducts
    /\ seat[p] = None

\* C22: every ticket the checkout step demands a seat for can be given one.
\* When is_completed has answered False for a cart and a ticket of the cart
\* is demanded a seat, a request of the cart's session for that ticket is not
\* refused by SeatAssignmentView as 'not connected to the seating plan':
\* tickets of a subevent included.
C22_DemandedSeatIsAccepted ==
    \A r \in Workers :
        (/\ pc[r] = "done"
         /\ rq[r].kind = "object" /\ rq[r].cart_position \in PositionIds
         /\ CartPositions[rq[r].cart_position].cart_id = rq[r].cart
         /\ ret.call = "is_completed" /\ ret.cart = rq[r].cart /\ ret.value = FALSE
         /\ SeatDemanded(rq[r].cart_position))
        => out[r].error # "This product is not connected to the seating plan."

\* is_completed requires the ticket to hold a seat: the step applies to the
\* cart of the ticket and the product of the ticket is mapped at event level.
StepRequiresSeat(p) ==
    /\ StepApplies(CartPositions[p].cart_id)
    /\ CartPositions[p].item_id \in EventLevelProducts

\* C23: the order-time check and the checkout step agree.  With the plugin
\* enabled, every position the patched _check_positions marks with
\* requires_seat = True because its product is mapped, at event level or for
\* its subevent, is a position is_completed requires to hold a seat.
C23_StepAgreesWithOrder ==
    (ret.call = "perform_order" /\ enabled) =>
        \A i \in DOMAIN ret.checked :
            (ret.checked[i].requires_seat /\ SeatMapped(ret.positions[i]))
                => StepRequiresSeat(ret.positions[i].pk)

\* The event-level rows and the rows of subevents among mapping rows.
EventLevelRows(rows) == {m \in rows : m.subevent_id = None}
SubeventRows(rows) == {m \in rows : m.subevent_id # None}

\* C24: a save leaves as event-level mapping rows exactly the pairs of a
\* category of the form and a product selected for it: the rows such a
\* category had are replaced, the rows of other categories are deleted, and
\* the rows of subevents stay as they were.
C24_RowsAfterSave ==
    [][(ret'.call = "save" /\ ret'.valid) =>
          /\ EventLevelRows(mappings') =
                {[subevent_id |-> None, layout_category |-> ret'.categories[i], product_id |-> x] :
                    i \in 1..Len(ret'.categories), x \in Products}
                \cap {m \in [subevent_id : {None}, layout_category : CategoryNames,
                             product_id : Products] :
                         m.product_id \in ret'.cleaned[m.layout_category]}
          /\ SubeventRows(mappings') = SubeventRows(mappings)]_vars

\* A plan with the single category B was saved with both products for it:
\* the event-level rows are the two rows of B, beside the row of the
\* subevent.
C24_Witness ==
    /\ Saved
    /\ FormCategories = {"B"}
    /\ ret.cleaned["B"] = Products
    /\ Cardinality(EventLevelRows(mappings)) = 2
    /\ SubeventRows(mappings) # {}

\* The worker answers 200 to a request that names a seat.
Assigned(r) == Answered(r) /\ out'[r].status = 200 /\ rq'[r].seat_guid # None

\* The worker answers a request of a session for a ticket of its cart, of a
\* mapped product, that names the seat the ticket holds.
AsksForOwnSeat(r) ==
    /\ Answered(r) /\ enabled
    /\ OwnMappedTicket(rq'[r])
    /\ rq'[r].seat_guid # None
    /\ seat[rq'[r].cart_position] # None
    /\ Seats[seat[rq'[r].cart_position]].seat_guid = rq'[r].seat_guid

\* C25: a cart position holds at most one seat.  A successful assignment
\* leaves the position with the seat named and every other position as it
\* was; a seat the position held before is held by nobody afterwards and is
\* available to every cart; and a request for the seat the position already
\* holds is answered 200 and changes nothing.
C25_OneSeatPerPosition ==
    [][\A r \in Workers :
          /\ Assigned(r) =>
                /\ seat'[rq'[r].cart_position] # None
                /\ Seats[seat'[rq'[r].cart_position]].seat_guid = rq'[r].seat_guid
                /\ \A p \in PositionIds \ {rq'[r].cart_position} : seat'[p] = seat[p]
                /\ (/\ seat[rq'[r].cart_position] # None
                    /\ seat[rq'[r].cart_position] # seat'[rq'[r].cart_position])
                      => /\ \A p \in PositionIds : seat'[p] # seat[rq'[r].cart_position]
                         /\ ~Seats[seat[rq'[r].cart_position]].blocked
                         /\ ~Seats[seat[rq'[r].cart_position]].has_order
                         /\ ~Seats[seat[rq'[r].cart_position]].has_voucher
          /\ AsksForOwnSeat(r) =>
                /\ out'[r].status = 200
                /\ out'[r].seat_guid = rq'[r].seat_guid
                /\ seat' = seat]_vars

\* A ticket that held a seat was given another one: it holds the new seat
\* and the response names the seat it gave up.
C25_Witness ==
    \E r \in Workers :
        /\ pc[r] = "done" /\ out[r].status = 200
        /\ rq[r].seat_guid # None
        /\ out[r].released # None
        /\ seat[rq[r].cart_position] # None
        /\ seat[rq[r].cart_position] # out[r].released
        /\ \A p \in PositionIds : seat[p] # out[r].released

\* The body of the request is valid JSON but no JSON object, or an object
\* whose cart_position is no usable id.
UnusableBody(q) ==
    \/ q.kind \in {"null", "array", "number", "string", "text_id"}
    \/ q.kind = "object" /\ q.cart_position = None

\* C26: post answers every body with a JSON response, and a body that is
\* valid JSON but no JSON object, or an object whose cart_position is no
\* usable id, with a 4xx JSON error: never with an unhandled exception.
C26_EveryBodyAnswered ==
    \A r \in Workers : pc[r] = "done" =>
        /\ out[r].status \in {200, 400, 403, 404, 409}
        /\ UnusableBody(rq[r]) => out[r].status \in {400, 403, 404, 409}

====
